---- MODULE Spec2Model ----
(***************************************************************************)
(* Model of the result-caching layer of voyagr-api: the cache-key          *)
(* generators and getOrSet of utils/cache.ts over a node-cache store, and   *)
(* the four search adapters of services/serpApiService.ts.                  *)
(*                                                                         *)
(* Strings are sequences of one-character strings, so that toLowerCase,    *)
(* trim, sort and join are computed as the code computes them.  An          *)
(* optional value (a field that may be undefined) is <<>> when it is not    *)
(* supplied and <<v>> when it is.                                           *)
(***************************************************************************)
EXTENDS Integers, Sequences, FiniteSets, TLC

\* ------------------------------------------------------------------------
\* Bounds of the model
\* ------------------------------------------------------------------------

\* Largest number used as a limit, budget or passenger count.
MaxNum == 2

\* ------------------------------------------------------------------------
\* JavaScript strings
\* ------------------------------------------------------------------------

\* The characters in ascending UTF-16 code-unit order.
CharOrder ==
  << " ", "$", "-", "/", "0", "1", "2", "3", "4", "5", "6", "7", "8", "9", ":",
     "A", "B", "C", "D", "E", "F", "G", "H", "I", "J", "K", "L", "M",
     "N", "O", "P", "Q", "R", "S", "T", "U", "V", "W", "X", "Y", "Z",
     "a", "b", "c", "d", "e", "f", "g", "h", "i", "j", "k", "l", "m",
     "n", "o", "p", "q", "r", "s", "t", "u", "v", "w", "x", "y", "z" >>

Code(c) == CHOOSE i \in 1..Len(CharOrder) : CharOrder[i] = c

IsUpper(c) == Code(c) >= Code("A") /\ Code(c) <= Code("Z")

IsLower(c) == Code(c) >= Code("a") /\ Code(c) <= Code("z")

IsLetter(c) == IsUpper(c) \/ IsLower(c)

LowerChar(c) == IF IsUpper(c) THEN CharOrder[Code(c) + 26] ELSE c

UpperChar(c) == IF IsLower(c) THEN CharOrder[Code(c) - 26] ELSE c

\* String.prototype.toLowerCase
toLowerCase(s) == [i \in 1..Len(s) |-> LowerChar(s[i])]

\* String.prototype.toUpperCase
toUpperCase(s) == [i \in 1..Len(s) |-> UpperChar(s[i])]

RECURSIVE trimStart(_)
trimStart(s) ==
  IF s # <<>> /\ s[1] = " " THEN trimStart(Tail(s)) ELSE s

RECURSIVE trimEnd(_)
trimEnd(s) ==
  IF s # <<>> /\ s[Len(s)] = " " THEN trimEnd(SubSeq(s, 1, Len(s) - 1)) ELSE s

\* String.prototype.trim
trim(s) == trimEnd(trimStart(s))

\* String.prototype.startsWith
startsWith(s, p) == Len(s) >= Len(p) /\ SubSeq(s, 1, Len(p)) = p

\* String.prototype.includes
includes(s, p) ==
  \E i \in 0..(Len(s) - Len(p)) : SubSeq(s, i + 1, i + Len(p)) = p

\* a < b in the order of Array.prototype.sort without a comparator
RECURSIVE StrLess(_, _)
StrLess(a, b) ==
  IF a = <<>> THEN b # <<>>
  ELSE IF b = <<>> THEN FALSE
  ELSE IF a[1] = b[1] THEN StrLess(Tail(a), Tail(b))
  ELSE Code(a[1]) < Code(b[1])

RECURSIVE SortInsert(_, _)
SortInsert(x, xs) ==
  IF xs = <<>> THEN <<x>>
  ELSE IF StrLess(x, xs[1]) THEN <<x>> \o xs
  ELSE <<xs[1]>> \o SortInsert(x, Tail(xs))

RECURSIVE SortStrings(_)
SortStrings(xs) ==
  IF xs = <<>> THEN <<>> ELSE SortInsert(xs[1], SortStrings(Tail(xs)))

\* A wrong sort that leaves the array as it is.
sortUnsorted(xs) == xs

\* Array.prototype.sort on an array of strings
sort(xs) == SortStrings(xs)

\* Array.prototype.join
RECURSIVE join(_, _)
join(parts, sep) ==
  IF parts = <<>> THEN <<>>
  ELSE IF Len(parts) = 1 THEN parts[1]
  ELSE parts[1] \o sep \o join(Tail(parts), sep)

\* The decimal text of a natural number, as a template literal prints it.
RECURSIVE NumToStr(_)
NumToStr(n) ==
  IF n < 10 THEN <<CharOrder[Code("0") + n]>>
  ELSE NumToStr(n \div 10) \o <<CharOrder[Code("0") + (n % 10)]>>

\* ------------------------------------------------------------------------
\* Optional values
\* ------------------------------------------------------------------------

Undefined == <<>>

Some(v) == <<v>>

\* if (x) for an optional string: supplied and not the empty string
TruthyStr(o) == o # <<>> /\ Len(o[1]) > 0

\* if (x) for an optional number: supplied and not 0
TruthyNum(o) == o # <<>> /\ o[1] # 0

\* if (x && x.length > 0) for an optional array
NonEmptyArr(o) == o # <<>> /\ Len(o[1]) > 0

\* ------------------------------------------------------------------------
\* String literals of cache.ts
\* ------------------------------------------------------------------------

S_restaurants == << "r", "e", "s", "t", "a", "u", "r", "a", "n", "t", "s" >>
S_attractions == << "a", "t", "t", "r", "a", "c", "t", "i", "o", "n", "s" >>
S_hotels == << "h", "o", "t", "e", "l", "s" >>
S_flights == << "f", "l", "i", "g", "h", "t", "s" >>
S_limit == << "l", "i", "m", "i", "t", ":" >>
S_checkin == << "c", "h", "e", "c", "k", "i", "n", ":" >>
S_checkout == << "c", "h", "e", "c", "k", "o", "u", "t", ":" >>
S_budget == << "b", "u", "d", "g", "e", "t", ":" >>
S_adults == << "a", "d", "u", "l", "t", "s", ":" >>
S_children == << "c", "h", "i", "l", "d", "r", "e", "n", ":" >>

\* ------------------------------------------------------------------------
\* Cache key generators (utils/cache.ts)
\* ------------------------------------------------------------------------

generateRestaurantCacheKey(destination, options) ==
  LET parts ==
        << S_restaurants, toLowerCase(destination) >>
        \o (IF TruthyStr(options.cuisine)
              THEN << toLowerCase(options.cuisine[1]) >> ELSE <<>>)
        \o (IF TruthyStr(options.priceLevel)
              THEN << options.priceLevel[1] >> ELSE <<>>)
        \o (IF TruthyNum(options.limit)
              THEN << S_limit \o NumToStr(options.limit[1]) >> ELSE <<>>)
  IN join(parts, <<":">>)

\* The interests array after generateAttractionCacheKey has run: sort()
\* sorts the caller's array in place.
InterestsAfterKey(options) ==
  IF NonEmptyArr(options.interests)
    THEN Some(sort(options.interests[1]))
    ELSE options.interests

\* The options object the caller passed, after generateAttractionCacheKey.
AttractionOptionsAfterKey(options) ==
  [options EXCEPT !.interests = InterestsAfterKey(options)]

\* A wrong generator that starts the key of an attraction search with the
\* word of the restaurant searches.
generateAttractionCacheKeyUnprefixed(destination, options) ==
  LET parts ==
        << S_restaurants, toLowerCase(destination) >>
        \o (IF NonEmptyArr(options.interests)
              THEN << toLowerCase(join(sort(options.interests[1]), <<"-">>)) >>
              ELSE <<>>)
        \o (IF TruthyNum(options.limit)
              THEN << S_limit \o NumToStr(options.limit[1]) >> ELSE <<>>)
  IN join(parts, <<":">>)

generateAttractionCacheKey(destination, options) ==
  LET parts ==
        << S_attractions, toLowerCase(destination) >>
        \o (IF NonEmptyArr(options.interests)
              THEN << toLowerCase(join(sort(options.interests[1]), <<"-">>)) >>
              ELSE <<>>)
        \o (IF TruthyNum(options.limit)
              THEN << S_limit \o NumToStr(options.limit[1]) >> ELSE <<>>)
  IN join(parts, <<":">>)

generateHotelCacheKey(destination, options) ==
  LET parts ==
        << S_hotels, toLowerCase(destination) >>
        \o (IF TruthyStr(options.checkIn)
              THEN << S_checkin \o options.checkIn[1] >> ELSE <<>>)
        \o (IF TruthyStr(options.checkOut)
              THEN << S_checkout \o options.checkOut[1] >> ELSE <<>>)
        \o (IF TruthyNum(options.budget)
              THEN << S_budget \o NumToStr(options.budget[1]) >> ELSE <<>>)
        \o (IF TruthyNum(options.limit)
              THEN << S_limit \o NumToStr(options.limit[1]) >> ELSE <<>>)
  IN join(parts, <<":">>)

generateFlightCacheKey(origin, destination, departureDate, returnDate, options) ==
  LET parts ==
        << S_flights, toLowerCase(origin), toLowerCase(destination),
           departureDate >>
        \o (IF TruthyStr(returnDate) THEN << returnDate[1] >> ELSE <<>>)
        \o (IF TruthyNum(options.adults)
              THEN << S_adults \o NumToStr(options.adults[1]) >> ELSE <<>>)
        \o (IF TruthyNum(options.children)
              THEN << S_children \o NumToStr(options.children[1]) >> ELSE <<>>)
        \o (IF TruthyStr(options.cabinClass)
              THEN << toLowerCase(options.cabinClass[1]) >> ELSE <<>>)
        \o (IF TruthyNum(options.limit)
              THEN << S_limit \o NumToStr(options.limit[1]) >> ELSE <<>>)
  IN join(parts, <<":">>)

\* The key an adapter derives for a request.
CacheKeyOf(r) ==
  CASE r.kind = "restaurants" ->
         generateRestaurantCacheKey(r.destination, r.options)
    [] r.kind = "attractions" ->
         generateAttractionCacheKey(r.destination, r.options)
    [] r.kind = "hotels" ->
         generateHotelCacheKey(r.destination, r.options)
    [] r.kind = "flights" ->
         generateFlightCacheKey(r.origin, r.destination, r.departureDate,
                                r.returnDate, r.options)

\* The caller's request object after its key has been derived.
RequestAfterKey(r) ==
  IF r.kind = "attractions"
    THEN [r EXCEPT !.options = AttractionOptionsAfterKey(r.options)]
    ELSE r

\* ------------------------------------------------------------------------
\* Constants of the program
\* ------------------------------------------------------------------------

\* stdTTL of serpCache, in seconds
SerpStdTTL == 900

\* the TTL searchFlights passes to getOrSet, in seconds
FlightTTL == 300

DEFAULT_LIMIT == 10

\* config/constants.ts
HTTP_STATUS ==
  [ OK |-> 200, CREATED |-> 201, NO_CONTENT |-> 204, BAD_REQUEST |-> 400,
    UNAUTHORIZED |-> 401, FORBIDDEN |-> 403, NOT_FOUND |-> 404,
    CONFLICT |-> 409, INTERNAL_SERVER_ERROR |-> 500,
    SERVICE_UNAVAILABLE |-> 503 ]

\* HTTP_STATUS.<name> as JavaScript reads it: undefined for a missing name
StatusNamed(name) ==
  IF name \in DOMAIN HTTP_STATUS THEN Some(HTTP_STATUS[name]) ELSE Undefined

\* new AppError(message, statusCode): an undefined statusCode takes the
\* default of the constructor's parameter.
AppError(message, statusCode) ==
  [ type |-> "error", value |-> <<>>, message |-> message,
    statusCode |-> IF statusCode = Undefined
                     THEN HTTP_STATUS.INTERNAL_SERVER_ERROR
                     ELSE statusCode[1] ]

\* A fulfilled adapter call.
Fulfilled(value) ==
  [ type |-> "ok", value |-> value, message |-> "", statusCode |-> 0 ]

\* An excerpt of CITY_TO_IATA, in the order of the source.
CITY_TO_IATA ==
  << << <<"n", "y", "c">>, <<"J", "F", "K">> >>,
     << <<"l", "a">>, <<"L", "A", "X">> >>,
     << <<"s", "f">>, <<"S", "F", "O">> >>,
     << <<"o", "a", "k", "l", "a", "n", "d">>, <<"O", "A", "K">> >>,
     << <<"j", "f", "k">>, <<"J", "F", "K">> >> >>

\* ------------------------------------------------------------------------
\* Bounds and inputs of the cache model
\* ------------------------------------------------------------------------

\* Number of request handlers that can be in progress at once.
MaxCalls == 2

\* The clock advances in steps of TickStep seconds up to MaxTime.
TickStep == 450

MaxTime == 1350

\* Longest list the upstream provider answers with.
MaxResults == 1

Calls == 1..MaxCalls

\* The first of the handlers.
FirstCall == 1

Places == {"x"}

RawLists == UNION { [1..n -> Places] : n \in 0..MaxResults }

NoRestaurantOptions ==
  [cuisine |-> Undefined, priceLevel |-> Undefined, limit |-> Undefined]

NoAttractionOptions == [interests |-> Undefined, limit |-> Undefined]

NoHotelOptions ==
  [checkIn |-> Undefined, checkOut |-> Undefined, budget |-> Undefined,
   limit |-> Undefined]

NoFlightOptions ==
  [adults |-> Undefined, children |-> Undefined, cabinClass |-> Undefined,
   limit |-> Undefined]

FlightRequest(origin, destination, departureDate) ==
  [kind |-> "flights", origin |-> origin, destination |-> destination,
   departureDate |-> departureDate, returnDate |-> Undefined,
   options |-> NoFlightOptions]

\* The requests the adapters of the cache model are called with: for each
\* kind a valid request and the requests its validation rejects.
Requests ==
  { [kind |-> "restaurants", destination |-> d,
     options |-> NoRestaurantOptions] : d \in { <<"p">>, <<" ">> } }
  \cup
  { [kind |-> "attractions", destination |-> d,
     options |-> [NoAttractionOptions EXCEPT
                    !.interests = Some(<< <<"b">>, <<"a">> >>)]] :
       d \in { <<"p">>, <<>> } }
  \cup
  { [kind |-> "hotels", destination |-> d,
     options |-> [NoHotelOptions EXCEPT !.limit = Some(1)]] :
       d \in { <<"p">>, <<" ", " ">> } }
  \cup
  { FlightRequest(<<"q", "z">>, <<"s", "f">>, <<"1">>),
    FlightRequest(<<" ">>, <<"s", "f">>, <<"1">>),
    FlightRequest(<<"q", "z">>, <<>>, <<"1">>),
    FlightRequest(<<"q", "z">>, <<"s", "f">>, <<" ">>),
    FlightRequest(<<"q", "z">>, <<"s", "f">>, <<>>) }

VARIABLES
  now,          \* the clock, in seconds
  SERPAPI_KEY,  \* process.env.SERPAPI_API_KEY as read when the module loads
  serpCache,    \* the entries of serpCache: key -> [v, t]
  calls,        \* the adapter calls, one per handler
  kpc,          \* key derivation: how often the keys have been derived
  kReq,         \* key derivation: the two requests as the callers built them
  kArg,         \* key derivation: the callers' request objects now
  kKeys,        \* key derivation: the pairs of keys derived so far
  apiCache,     \* the entries of apiCache: key -> [v, t]
  deletedCount, \* what the last clearCacheByPattern returned
  trip          \* the planTrip request being handled and its response

cacheVars == << now, SERPAPI_KEY, serpCache, calls >>

keyVars == << kpc, kReq, kArg, kKeys >>

adminVars == << apiCache, deletedCount >>

tripVars == << trip >>

vars ==
  << now, SERPAPI_KEY, serpCache, calls, kpc, kReq, kArg, kKeys,
     apiCache, deletedCount, trip >>

\* ------------------------------------------------------------------------
\* The store (node-cache, as serpCache configures it)
\* ------------------------------------------------------------------------

\* A wrong check that never finds an entry expired.
cacheNeverExpired(cache, key, time) == FALSE

\* An entry is expired when its deadline lies before the current time.

cacheExpired(cache, key, time) == cache[key].t < time

\* A wrong lookup that takes an entry with an empty list for a missing one.
cacheGetNonEmpty(cache, key, time) ==
  IF key \in DOMAIN cache /\ ~cacheExpired(cache, key, time)
       /\ cache[key].v # << >>
    THEN Some(cache[key].v)
    ELSE Undefined

\* cache.get(key): the value of a live entry, undefined otherwise
cacheGet(cache, key, time) ==
  IF key \in DOMAIN cache /\ ~cacheExpired(cache, key, time)
    THEN Some(cache[key].v)
    ELSE Undefined

\* cache.del(keys)
cacheDel(cache, keys) == [k \in DOMAIN cache \ keys |-> cache[k]]

\* A wrong lookup that removes every expired entry of the store.
cacheAfterGetSweeping(cache, key, time) ==
  cacheDel(cache, { k \in DOMAIN cache : cacheExpired(cache, k, time) })

\* The store after cache.get(key): deleteOnExpire removes an expired entry
\* that a lookup comes across.
cacheAfterGet(cache, key, time) ==
  IF key \in DOMAIN cache /\ cacheExpired(cache, key, time)
    THEN cacheDel(cache, {key})
    ELSE cache

\* cache.set(key, value, ttl), ttl in seconds
cacheSetTTL(cache, key, value, ttl, time) ==
  [k \in DOMAIN cache \cup {key} |->
     IF k = key THEN [v |-> value, t |-> time + ttl] ELSE cache[k]]

\* cache.set(key, value): the entry gets stdTTL
cacheSet(cache, key, value, time) ==
  cacheSetTTL(cache, key, value, SerpStdTTL, time)

\* A wrong check that flushes the store.
cacheCheckDataFlushing(cache, time) == cacheDel(cache, DOMAIN cache)

\* The periodic check of node-cache removes every expired entry.
cacheCheckData(cache, time) ==
  cacheDel(cache, { k \in DOMAIN cache : cacheExpired(cache, k, time) })

\* ------------------------------------------------------------------------
\* serpApiService.ts
\* ------------------------------------------------------------------------

isSerpApiConfigured == SERPAPI_KEY # Undefined /\ Len(SERPAPI_KEY[1]) > 0

\* A wrong classification that reports a missing response as a rejection.
handleSerpApiErrorUnclassified(error, context) ==
  IF error = "response" \/ error = "noResponse"
    THEN AppError("SERP API returned error", StatusNamed("BAD_GATEWAY"))
    ELSE AppError("Failed to " \o context,
                  StatusNamed("INTERNAL_SERVER_ERROR"))

\* handleSerpApiError(error, context): the AppError it throws.  The error is
\* "response" (an axios error with a response), "noResponse" (an axios error
\* with a request only) or anything else.
handleSerpApiError(error, context) ==
  IF error = "response"
    THEN AppError("SERP API returned error", StatusNamed("BAD_GATEWAY"))
    ELSE IF error = "noResponse"
      THEN AppError("SERP API did not respond", StatusNamed("GATEWAY_TIMEOUT"))
      ELSE AppError("Failed to " \o context,
                    StatusNamed("INTERNAL_SERVER_ERROR"))

\* !s || s.trim().length === 0
IsBlank(s) == Len(s) = 0 \/ Len(trim(s)) = 0

\* A wrong check that accepts a text of blanks.
ValidationErrorUntrimmed(r) ==
  IF (IF r.kind = "flights"
        THEN Len(r.origin) = 0 \/ Len(r.destination) = 0
               \/ Len(r.departureDate) = 0
        ELSE Len(r.destination) = 0)
    THEN Some(AppError("Missing parameter", StatusNamed("BAD_REQUEST")))
    ELSE Undefined

\* The check at the head of each adapter: the error it throws, if any.
ValidationError(r) ==
  IF r.kind = "flights"
    THEN IF IsBlank(r.origin)
           THEN Some(AppError("Origin is required",
                              StatusNamed("BAD_REQUEST")))
         ELSE IF IsBlank(r.destination)
           THEN Some(AppError("Destination is required",
                              StatusNamed("BAD_REQUEST")))
         ELSE IF IsBlank(r.departureDate)
           THEN Some(AppError("Departure date is required",
                              StatusNamed("BAD_REQUEST")))
         ELSE Undefined
    ELSE IF IsBlank(r.destination)
           THEN Some(AppError("Destination is required",
                              StatusNamed("BAD_REQUEST")))
           ELSE Undefined

\* const { limit = DEFAULT_LIMIT } = options
LimitOf(r) ==
  IF r.options.limit = Undefined THEN DEFAULT_LIMIT ELSE r.options.limit[1]

\* Array.prototype.slice(0, n)
slice(xs, n) == SubSeq(xs, 1, IF n < Len(xs) THEN n ELSE Len(xs))

\* The TTL argument the adapter gives getOrSet.
\* A wrong flight adapter that gives getOrSet no TTL.
TtlOfUnset(r) == Undefined

TtlOf(r) == IF r.kind = "flights" THEN Some(FlightTTL) ELSE Undefined

ContextOf(r) == "search " \o r.kind

\* /^[A-Z]{3}$/i
IsIataShaped(s) == Len(s) = 3 /\ \A i \in 1..3 : IsLetter(s[i])

S_freebase == << "/", "m", "/" >>

TableExact(s) ==
  { i \in 1..Len(CITY_TO_IATA) : CITY_TO_IATA[i][1] = s }

TablePartial(s) ==
  { i \in 1..Len(CITY_TO_IATA) :
      includes(s, CITY_TO_IATA[i][1]) \/ includes(CITY_TO_IATA[i][1], s) }

MinOf(S) == CHOOSE i \in S : \A j \in S : i <= j

\* A wrong normalizer that consults the table before it tests for a
\* 3-letter code and a Freebase id.
normalizeLocalTableFirst(location) ==
  LET normalized == trim(toLowerCase(location))
  IN IF Len(location) = 0 THEN Some(<<>>)
     ELSE IF TableExact(normalized) # {}
       THEN Some(CITY_TO_IATA[MinOf(TableExact(normalized))][2])
     ELSE IF TablePartial(normalized) # {}
       THEN Some(CITY_TO_IATA[MinOf(TablePartial(normalized))][2])
     ELSE IF IsIataShaped(trim(location))
       THEN Some(toUpperCase(trim(location)))
     ELSE IF startsWith(trim(location), S_freebase)
       THEN Some(trim(location))
     ELSE Undefined

\* normalizeToIATACode up to its network fallback: the code it returns
\* without a network call, undefined when it goes on to Wikidata.
normalizeLocal(location) ==
  LET normalized == trim(toLowerCase(location))
  IN IF Len(location) = 0 THEN Some(<<>>)
     ELSE IF IsIataShaped(trim(location))
       THEN Some(toUpperCase(trim(location)))
     ELSE IF startsWith(trim(location), S_freebase)
       THEN Some(trim(location))
     ELSE IF TableExact(normalized) # {}
       THEN Some(CITY_TO_IATA[MinOf(TableExact(normalized))][2])
     ELSE IF TablePartial(normalized) # {}
       THEN Some(CITY_TO_IATA[MinOf(TablePartial(normalized))][2])
     ELSE Undefined

\* A wrong fallback that returns the location with its blanks.
normalizeFallbackUntrimmed(location, freebaseId) ==
  IF freebaseId # Undefined /\ Len(freebaseId[1]) > 0
    THEN freebaseId[1]
    ELSE location

\* normalizeToIATACode after the network fallback has answered with
\* freebaseId (undefined for null).
normalizeFallback(location, freebaseId) ==
  IF freebaseId # Undefined /\ Len(freebaseId[1]) > 0
    THEN freebaseId[1]
    ELSE trim(location)


\* ------------------------------------------------------------------------
\* Adapter calls
\* ------------------------------------------------------------------------

\* A handler that has not called its adapter yet.  req is the request object
\* of the caller; key is the derived cache key; the counters record what the
\* call has done so far: cache lookups, supplier invocations, requests to the
\* upstream provider, requests to the lookup service, and cache writes;
\* found records what the lookup of getOrSet came across, failure the way
\* the request to the provider failed, clearedInFlight that entries of
\* serpCache were cleared while the supplier of the call was in flight.
IdleCall ==
  [ pc |-> "idle", req |-> Undefined, key |-> Undefined, outcome |-> Undefined,
    found |-> "", failure |-> "", clearedInFlight |-> FALSE,
    originCode |-> Undefined, destinationCode |-> Undefined,
    lookups |-> 0, supplierRuns |-> 0, upstreamCalls |-> 0,
    lookupCalls |-> 0, writes |-> 0 ]

InFlight == { "normOrigin", "originSearch", "originEntity",
              "normDestination", "destinationSearch", "destinationEntity",
              "request", "fetching" }

\* The calls as a clear of serpCache leaves them: none is cancelled, and
\* those with a supplier in flight have seen the clear.
callsAfterClear(cs) ==
  [c \in DOMAIN cs |->
     IF cs[c].pc \in InFlight
       THEN [cs[c] EXCEPT !.clearedInFlight = TRUE]
       ELSE cs[c]]

Init ==
  /\ now = 0
  /\ SERPAPI_KEY \in { Undefined, Some(<<"k">>) }
  /\ serpCache = << >>
  /\ calls = [c \in Calls |-> IdleCall]
  /\ kpc = 0
  /\ kReq = << >>
  /\ kArg = << >>
  /\ kKeys = << >>
  /\ apiCache = << >>
  /\ deletedCount = Undefined
  /\ trip = Undefined

\* A wrong request without a timeout, which an unresponsive provider never
\* settles.
RequestOrFailUnbounded(call) ==
  IF ~isSerpApiConfigured
    THEN [call EXCEPT !.pc = "done",
                      !.outcome = Some(handleSerpApiError("AppError",
                                         ContextOf(call.req[1])))]
    ELSE [call EXCEPT !.pc = "request"]

\* makeSerpApiRequest up to its axios.get: the call either fails because the
\* credential is missing, the error passing through getOrSet uncached and
\* through the adapter's catch, or has its request to the provider in flight.
RequestOrFail(call) ==
  IF ~isSerpApiConfigured
    THEN [call EXCEPT !.pc = "done",
                      !.outcome = Some(handleSerpApiError("AppError",
                                         ContextOf(call.req[1])))]
    ELSE [call EXCEPT !.pc = "fetching",
                      !.upstreamCalls = call.upstreamCalls + 1]

\* The supplier of an adapter up to its first await.
RunSupplier(call) ==
  IF call.req[1].kind = "flights"
    THEN [call EXCEPT !.pc = "normOrigin"]
    ELSE RequestOrFail(call)

\* getOrSet up to the await of its supplier, for a call that has derived its
\* key: a hit returns the cached value, a miss invokes the supplier.
\* The entry a lookup of key comes across.
Found(cache, key, time) ==
  IF key \notin DOMAIN cache THEN "none"
  ELSE IF cache[key].t < time THEN "expired"
  ELSE "live"

\* A wrong getOrSet that goes to its supplier without a lookup.
getOrSetSkippingCache(call, cache, time) ==
  RunSupplier([call EXCEPT !.supplierRuns = 1,
                           !.found = Found(cache, call.key[1], time)])

\* A wrong flight adapter that resolves the codes ahead of the lookup.
getOrSetBeginResolved(call, cache, time) ==
  LET looked == [call EXCEPT !.lookups = call.lookups + 1,
                             !.found = Found(cache, call.key[1], time)]
  IN IF call.req[1].kind = "flights"
       THEN [looked EXCEPT !.pc = "normOrigin"]
       ELSE IF cacheGet(cache, call.key[1], time) # Undefined
         THEN [looked EXCEPT
                 !.pc = "done",
                 !.outcome =
                   Some(Fulfilled(cacheGet(cache, call.key[1], time)[1]))]
         ELSE RunSupplier([looked EXCEPT !.supplierRuns = 1])

getOrSetBegin(call, cache, time) ==
  LET cached == cacheGet(cache, call.key[1], time)
      looked == [call EXCEPT !.lookups = call.lookups + 1,
                             !.found = Found(cache, call.key[1], time)]
  IN IF cached # Undefined
       THEN [looked EXCEPT !.pc = "done",
                           !.outcome = Some(Fulfilled(cached[1]))]
       ELSE RunSupplier([looked EXCEPT !.supplierRuns = 1])

\* search<Kind>(...) from its call to its first await: validation, key
\* derivation, the lookup of getOrSet and, on a miss, the supplier.
Search(c, r) ==
  /\ calls[c].pc = "idle"
  /\ LET invalid == ValidationError(r)
         key     == CacheKeyOf(r)
         started == [IdleCall EXCEPT !.req = Some(r)]
         keyed   == [started EXCEPT !.req = Some(RequestAfterKey(r)),
                                    !.key = Some(key)]
     IN IF invalid # Undefined
          THEN /\ calls' = [calls EXCEPT ![c] =
                     [started EXCEPT !.pc = "done", !.outcome = invalid]]
               /\ UNCHANGED serpCache
          ELSE /\ calls' = [calls EXCEPT ![c] =
                     getOrSetBegin(keyed, serpCache, now)]
               /\ serpCache' = cacheAfterGet(serpCache, key, now)
  /\ UNCHANGED << now, SERPAPI_KEY, keyVars, adminVars, tripVars >>

searchRestaurants(c) ==
  \E r \in Requests : r.kind = "restaurants" /\ Search(c, r)

searchAttractions(c) ==
  \E r \in Requests : r.kind = "attractions" /\ Search(c, r)

searchHotels(c) ==
  \E r \in Requests : r.kind = "hotels" /\ Search(c, r)

searchFlights(c) ==
  \E r \in Requests : r.kind = "flights" /\ Search(c, r)

ResolvingOrigin(call) ==
  call.pc \in { "normOrigin", "originSearch", "originEntity" }

\* The location a flight call is resolving at its current step.
LocationAt(call) ==
  IF ResolvingOrigin(call)
    THEN call.req[1].origin
    ELSE call.req[1].destination

\* A wrong normalizer that lets a lookup without a result end the call with
\* an error.
ResolvedOrThrown(call, code) ==
  IF call.pc \notin { "normOrigin", "normDestination" }
       /\ ~startsWith(code, S_freebase)
    THEN [call EXCEPT !.pc = "done",
                      !.outcome = Some(handleSerpApiError("Error",
                                         ContextOf(call.req[1])))]
    ELSE IF ResolvingOrigin(call)
      THEN [call EXCEPT !.originCode = Some(code), !.pc = "normDestination"]
      ELSE [call EXCEPT !.destinationCode = Some(code), !.pc = "request"]

\* The call after normalizeToIATACode has returned code for the location it
\* was resolving.
Resolved(call, code) ==
  IF ResolvingOrigin(call)
    THEN [call EXCEPT !.originCode = Some(code), !.pc = "normDestination"]
    ELSE [call EXCEPT !.destinationCode = Some(code), !.pc = "request"]

\* normalizeToIATACode(location) up to its network fallback.
normalizeToIATACode(c) ==
  /\ calls[c].pc \in { "normOrigin", "normDestination" }
  /\ LET call  == calls[c]
         local == normalizeLocal(LocationAt(call))
     IN calls' = [calls EXCEPT ![c] =
          IF local # Undefined
            THEN Resolved(call, local[1])
            ELSE [call EXCEPT
                    !.pc = IF call.pc = "normOrigin"
                             THEN "originSearch" ELSE "destinationSearch",
                    !.lookupCalls = call.lookupCalls + 1]]
  /\ UNCHANGED << now, SERPAPI_KEY, serpCache, keyVars, adminVars, tripVars >>

\* getWikidataFreebaseId: the entity search answers.  A failure or an empty
\* result gives null; a result leads to the request for the entity.
WikidataSearch(c) ==
  /\ calls[c].pc \in { "originSearch", "destinationSearch" }
  /\ \E answer \in { "error", "empty", "found" } :
       LET call == calls[c]
       IN calls' = [calls EXCEPT ![c] =
            IF answer = "found"
              THEN [call EXCEPT
                      !.pc = IF call.pc = "originSearch"
                               THEN "originEntity" ELSE "destinationEntity",
                      !.lookupCalls = call.lookupCalls + 1]
              ELSE Resolved(call,
                            normalizeFallback(LocationAt(call), Undefined))]
  /\ UNCHANGED << now, SERPAPI_KEY, serpCache, keyVars, adminVars, tripVars >>

\* getWikidataFreebaseId: the entity request answers with a Freebase id, or
\* without one or with a failure (null).
WikidataEntity(c) ==
  /\ calls[c].pc \in { "originEntity", "destinationEntity" }
  /\ \E answer \in { Undefined, Some(<<"/", "m", "/", "1">>) } :
       calls' = [calls EXCEPT ![c] =
         Resolved(calls[c], normalizeFallback(LocationAt(calls[c]), answer))]
  /\ UNCHANGED << now, SERPAPI_KEY, serpCache, keyVars, adminVars, tripVars >>

\* The flight supplier reaches makeSerpApiRequest.
makeSerpApiRequest(c) ==
  /\ calls[c].pc = "request"
  /\ calls' = [calls EXCEPT ![c] = RequestOrFail(calls[c])]
  /\ UNCHANGED << now, SERPAPI_KEY, serpCache, keyVars, adminVars, tripVars >>

\* A wrong write that keeps the entry a concurrent call has stored.
getOrSetStoreFirstWins(cache, key, data, ttl, time) ==
  IF key \in DOMAIN cache THEN cache
  ELSE IF ttl # Undefined /\ ttl[1] # 0
    THEN cacheSetTTL(cache, key, data, ttl[1], time)
    ELSE cacheSet(cache, key, data, time)

\* getOrSet after its supplier has returned data: the write to the cache.
getOrSetStore(cache, key, data, ttl, time) ==
  IF ttl # Undefined /\ ttl[1] # 0
    THEN cacheSetTTL(cache, key, data, ttl[1], time)
    ELSE cacheSet(cache, key, data, time)

\* A wrong getOrSet that stores an empty list when its supplier fails.
getOrSetRejectedCaching(cache, key, time) == cacheSet(cache, key, << >>, time)

\* getOrSet after its supplier has failed: the await throws, the write is
\* not reached and the cache is as it was.
getOrSetRejected(cache, key, time) == cache

\* The provider answers with a list: the supplier cuts it to the limit,
\* getOrSet stores the result and the adapter returns it.
UpstreamAnswer(c) ==
  /\ calls[c].pc = "fetching"
  /\ \E raw \in RawLists :
       LET call    == calls[c]
           results == slice(raw, LimitOf(call.req[1]))
       IN /\ serpCache' = getOrSetStore(serpCache, call.key[1], results,
                                        TtlOf(call.req[1]), now)
          /\ calls' = [calls EXCEPT ![c] =
               [call EXCEPT !.pc = "done",
                            !.writes = call.writes + 1,
                            !.outcome = Some(Fulfilled(results))]]
  /\ UNCHANGED << now, SERPAPI_KEY, keyVars, adminVars, tripVars >>

\* The request to the provider fails: with a non-2xx response, without a
\* response (a timeout among them), or the answer cannot be processed.
\* getOrSet stores nothing and the adapter's catch rethrows.
UpstreamFailure(c) ==
  /\ calls[c].pc = "fetching"
  /\ \E error \in { "response", "noResponse", "TypeError" } :
       calls' = [calls EXCEPT ![c] =
         [calls[c] EXCEPT
            !.pc = "done",
            !.failure = error,
            !.outcome = Some(handleSerpApiError(error,
                                                ContextOf(calls[c].req[1])))]]
  /\ serpCache' = getOrSetRejected(serpCache, calls[c].key[1], now)
  /\ UNCHANGED << now, SERPAPI_KEY, keyVars, adminVars, tripVars >>

\* Time passes.
Tick ==
  /\ now + TickStep <= MaxTime
  /\ now' = now + TickStep
  /\ UNCHANGED << SERPAPI_KEY, serpCache, calls, keyVars, adminVars, tripVars >>

\* The periodic check of serpCache (checkperiod) runs.
Sweep ==
  /\ serpCache' = cacheCheckData(serpCache, now)
  /\ serpCache' # serpCache
  /\ UNCHANGED << now, SERPAPI_KEY, calls, keyVars, adminVars, tripVars >>

Next ==
  \/ \E c \in Calls : searchRestaurants(c)
  \/ \E c \in Calls : searchAttractions(c)
  \/ \E c \in Calls : searchHotels(c)
  \/ \E c \in Calls : searchFlights(c)
  \/ \E c \in Calls : normalizeToIATACode(c)
  \/ \E c \in Calls : WikidataSearch(c)
  \/ \E c \in Calls : WikidataEntity(c)
  \/ \E c \in Calls : makeSerpApiRequest(c)
  \/ \E c \in Calls : UpstreamAnswer(c)
  \/ \E c \in Calls : UpstreamFailure(c)
  \/ Tick
  \/ Sweep

Spec == Init /\ [][Next]_vars

TypeOK ==
  /\ now \in 0..MaxTime
  /\ \A c \in Calls : calls[c].pc \in InFlight \cup { "idle", "done" }

\* ------------------------------------------------------------------------
\* Key derivation on its own: two requests of one kind, each key derived
\* from the caller's request object, twice over
\* ------------------------------------------------------------------------

\* Longest interests list of a request.
MaxInterests == 2

\* How often the keys of the two requests are derived.
Derivations == 2

OptNums == { Undefined } \cup { Some(n) : n \in 0..MaxNum }

InterestWords == { <<"a">>, <<"b">>, <<"B">> }

InterestLists == UNION { [1..n -> InterestWords] : n \in 0..MaxInterests }

RestaurantRequests ==
  { [kind |-> "restaurants", destination |-> d,
     options |-> [cuisine |-> c, priceLevel |-> p, limit |-> l]] :
       d \in { <<"p">>, <<"P">>, <<" ", "p", " ">> },
       c \in { Undefined, Some(<<"i">>), Some(<<"I">>), Some(<<"$">>) },
       p \in { Undefined, Some(<<"$">>) },
       l \in OptNums }

AttractionRequests ==
  { [kind |-> "attractions", destination |-> d,
     options |-> [interests |-> i, limit |-> l]] :
       d \in { <<"p">>, <<"P">> },
       i \in { Undefined } \cup { Some(w) : w \in InterestLists },
       l \in { Undefined, Some(1) } }

HotelRequests ==
  { [kind |-> "hotels", destination |-> d,
     options |-> [checkIn |-> ci, checkOut |-> co, budget |-> b,
                  limit |-> l]] :
       d \in { <<"p">>, <<"p", " ">> },
       ci \in { Undefined, Some(<<"1">>) },
       co \in { Undefined, Some(<<"1">>), Some(<<"2">>) },
       b \in { Undefined, Some(0), Some(1) },
       l \in { Undefined, Some(1) } }

FlightRequests ==
  { [kind |-> "flights", origin |-> o, destination |-> <<"s">>,
     departureDate |-> <<"1">>, returnDate |-> rd,
     options |-> [adults |-> a, children |-> ch, cabinClass |-> cc,
                  limit |-> l]] :
       o \in { <<"q">>, <<"Q">> },
       rd \in { Undefined, Some(<<"2">>) },
       a \in { Undefined, Some(0), Some(1) },
       ch \in { Undefined, Some(1) },
       cc \in { Undefined, Some(<<"e">>), Some(<<" ", "E">>) },
       l \in { Undefined, Some(1) } }

KeyRequests ==
  RestaurantRequests \cup AttractionRequests \cup HotelRequests
    \cup FlightRequests

KeyInit ==
  /\ now = 0
  /\ SERPAPI_KEY = Undefined
  /\ serpCache = << >>
  /\ calls = [c \in Calls |-> IdleCall]
  /\ kpc = 0
  /\ \E a \in KeyRequests, b \in KeyRequests :
       a.kind = b.kind /\ kReq = << a, b >>
  /\ kArg = kReq
  /\ kKeys = << >>
  /\ apiCache = << >>
  /\ deletedCount = Undefined
  /\ trip = Undefined

\* The generator of one kind runs on both request objects.
DeriveKeys(kind) ==
  /\ kpc < Derivations
  /\ kArg[1].kind = kind
  /\ kpc' = kpc + 1
  /\ kKeys' = Append(kKeys, << CacheKeyOf(kArg[1]), CacheKeyOf(kArg[2]) >>)
  /\ kArg' = << RequestAfterKey(kArg[1]), RequestAfterKey(kArg[2]) >>
  /\ UNCHANGED << kReq, cacheVars, adminVars, tripVars >>

DeriveRestaurantKeys == DeriveKeys("restaurants")

DeriveAttractionKeys == DeriveKeys("attractions")

DeriveHotelKeys == DeriveKeys("hotels")

DeriveFlightKeys == DeriveKeys("flights")

KeyNext ==
  \/ DeriveRestaurantKeys
  \/ DeriveAttractionKeys
  \/ DeriveHotelKeys
  \/ DeriveFlightKeys

KeySpec == KeyInit /\ [][KeyNext]_vars

\* ------------------------------------------------------------------------
\* Properties of getOrSet and the store
\* ------------------------------------------------------------------------

\* The step is the start of call c, and c has derived a key.
Starts(c) ==
  /\ calls[c].pc = "idle"
  /\ calls'[c].pc # "idle"
  /\ calls'[c].key # Undefined

\* The step is the end of the supplier of call c with a result.
Completes(c) ==
  /\ calls[c].pc = "fetching"
  /\ calls'[c].pc = "done"
  /\ calls'[c].outcome[1].type = "ok"

\* The step ends call c with an error.
Fails(c) ==
  /\ calls[c].pc # "done"
  /\ calls'[c].pc = "done"
  /\ calls'[c].outcome[1].type = "error"

\* Call c is done, having found nothing live, run its supplier and stored.
Populated(c) ==
  /\ calls[c].pc = "done"
  /\ calls[c].outcome[1].type = "ok"
  /\ calls[c].supplierRuns = 1
  /\ calls[c].writes = 1

\* Call c is done with a value it took from the cache.
ServedFromCache(c) ==
  /\ calls[c].pc = "done"
  /\ calls[c].outcome[1].type = "ok"
  /\ calls[c].found = "live"
  /\ calls[c].supplierRuns = 0

\* C1: a getOrSet that starts while the store holds an entry for its key
\* that has not expired returns the stored value without invoking its
\* supplier and without any network call.
CacheHitSuppressesSupplier ==
  [][\A c \in Calls :
       LET k == calls'[c].key[1]
       IN (Starts(c) /\ k \in DOMAIN serpCache /\ now < serpCache[k].t)
            => /\ calls'[c].pc = "done"
               /\ calls'[c].outcome = Some(Fulfilled(serpCache[k].v))
               /\ calls'[c].supplierRuns = 0
               /\ calls'[c].upstreamCalls = 0
               /\ calls'[c].lookupCalls = 0
               /\ serpCache' = serpCache]_vars

\* C1 witness: a call has populated the cache and another call of the same
\* key has been served that value from the cache.
CacheHitWitness ==
  \E c \in Calls, d \in Calls :
    /\ c # d
    /\ Populated(d)
    /\ ServedFromCache(c)
    /\ calls[c].key = calls[d].key
    /\ calls[c].outcome[1].value = calls[d].outcome[1].value
    /\ calls[c].outcome[1].value # << >>

\* C2: a supplier failure reaches the caller as an error and adds or
\* overwrites no entry; a getOrSet that finds no entry for its key invokes
\* its supplier, and the result of a supplier that succeeds is the cached
\* value of the key.
NoErrorCaching ==
  [][\A c \in Calls :
       /\ Fails(c) =>
            \A k \in DOMAIN serpCache' :
              k \in DOMAIN serpCache /\ serpCache'[k] = serpCache[k]
       /\ (Fails(c) /\ calls[c].pc = "fetching") => serpCache' = serpCache
       /\ (Starts(c) /\ calls'[c].key[1] \notin DOMAIN serpCache)
            => calls'[c].supplierRuns = 1
       /\ Completes(c) =>
            /\ calls[c].key[1] \in DOMAIN serpCache'
            /\ serpCache'[calls[c].key[1]].v = calls'[c].outcome[1].value]_vars

\* C2 witness: a call has failed in its supplier, and another call of the
\* same key has found no entry, run its supplier and stored its result.
NoErrorCachingWitness ==
  \E c \in Calls, d \in Calls :
    /\ c # d
    /\ calls[c].pc = "done"
    /\ calls[c].outcome[1].type = "error"
    /\ calls[c].upstreamCalls = 1
    /\ Populated(d)
    /\ calls[d].found = "none"
    /\ calls[d].key = calls[c].key
    /\ calls[d].key[1] \in DOMAIN serpCache
    /\ serpCache[calls[d].key[1]].v = calls[d].outcome[1].value

\* The TTL of the entries of a kind: the override of the flight adapter,
\* the default of the domain otherwise.
TtlOfKind(kind) == IF kind = "flights" THEN FlightTTL ELSE SerpStdTTL

\* C3: an entry is stored with the deadline store time + T; a getOrSet that
\* starts before the deadline is served the entry; one that starts after
\* the deadline has passed invokes its supplier; no call is served an entry
\* whose deadline has passed.
NoStaleReads ==
  [][\A c \in Calls :
       LET k == calls'[c].key[1]
       IN /\ Completes(c) =>
               serpCache'[calls[c].key[1]].t
                 = now + TtlOfKind(calls[c].req[1].kind)
          /\ (Starts(c) /\ k \in DOMAIN serpCache /\ now < serpCache[k].t)
               => /\ calls'[c].supplierRuns = 0
                  /\ calls'[c].outcome = Some(Fulfilled(serpCache[k].v))
          /\ (Starts(c) /\ k \in DOMAIN serpCache /\ now > serpCache[k].t)
               => /\ calls'[c].supplierRuns = 1
                  /\ calls'[c].found = "expired"
                  /\ k \notin DOMAIN serpCache'
          /\ (Starts(c) /\ calls'[c].supplierRuns = 0)
               => /\ k \in DOMAIN serpCache
                  /\ now <= serpCache[k].t]_vars

\* C3 witness: a call has come across an expired entry of its key and has
\* its supplier in flight, at a time after the clock has moved.
NoStaleReadsWitness ==
  \E c \in Calls :
    /\ calls[c].found = "expired"
    /\ calls[c].supplierRuns = 1
    /\ calls[c].pc = "fetching"
    /\ now > 0

\* C4: a getOrSet that misses while another call has its supplier in flight
\* for the same key invokes its own supplier; when a supplier completes its
\* result is returned and is the entry of the key, whatever was stored
\* before; other calls are left as they are, and a call fails only at its
\* own validation, credential check or upstream request.
ConcurrentMissesLastWriteWins ==
  [][\A c \in Calls :
       /\ (Starts(c) /\ calls'[c].found # "live") =>
            calls'[c].supplierRuns = 1
       /\ Completes(c) =>
            /\ calls[c].key[1] \in DOMAIN serpCache'
            /\ serpCache'[calls[c].key[1]].v = calls'[c].outcome[1].value
            /\ \A k \in DOMAIN serpCache' \ { calls[c].key[1] } :
                 k \in DOMAIN serpCache /\ serpCache'[k] = serpCache[k]
       /\ calls'[c] # calls[c] =>
            \A d \in Calls \ {c} : calls'[d] = calls[d]
       /\ Fails(c) =>
            \/ calls[c].pc = "idle" /\ calls'[c].key = Undefined
            \/ ~isSerpApiConfigured
            \/ calls[c].pc = "fetching"]_vars

\* C4 witness: two calls of the same key have both found no entry, both run
\* their suppliers without the clock moving, and returned different lists;
\* the store holds one of the two.
ConcurrentMissesWitness ==
  \E c \in Calls, d \in Calls :
    /\ c # d
    /\ Populated(c) /\ Populated(d)
    /\ calls[c].found = "none" /\ calls[d].found = "none"
    /\ calls[c].key = calls[d].key
    /\ calls[c].outcome[1].value # calls[d].outcome[1].value
    /\ now = 0
    /\ serpCache[calls[c].key[1]].v = calls[c].outcome[1].value

\* ------------------------------------------------------------------------
\* Properties of the key generators
\* ------------------------------------------------------------------------

\* A text with letter case and leading and trailing blanks taken out.
CanonText(t) == trim(toLowerCase(t))

CanonOptText(o) == IF o = Undefined THEN o ELSE Some(CanonText(o[1]))

\* An empty list of interests is no filter.
CanonList(o) ==
  IF o = Undefined \/ o = Some(<< >>) THEN Undefined
  ELSE Some([i \in 1..Len(o[1]) |-> CanonText(o[1][i])])

\* A request with its subject and text filters (destination, origin,
\* cuisine, interests, cabin class) taken to lower case and trimmed.
Canon(r) ==
  CASE r.kind = "restaurants" ->
         [r EXCEPT !.destination = CanonText(@),
                   !.options.cuisine = CanonOptText(@)]
    [] r.kind = "attractions" ->
         [r EXCEPT !.destination = CanonText(@),
                   !.options.interests = CanonList(@)]
    [] r.kind = "hotels" ->
         [r EXCEPT !.destination = CanonText(@)]
    [] r.kind = "flights" ->
         [r EXCEPT !.destination = CanonText(@),
                   !.origin = CanonText(@),
                   !.options.cabinClass = CanonOptText(@)]

\* How often word w occurs in list xs.
Occurrences(xs, w) == Cardinality({ i \in 1..Len(xs) : xs[i] = w })

\* Two optional lists are supplied and hold the same words, in any order.
IsPermutation(o1, o2) ==
  /\ o1 # Undefined /\ o2 # Undefined
  /\ Len(o1[1]) = Len(o2[1])
  /\ \A w \in InterestWords : Occurrences(o1[1], w) = Occurrences(o2[1], w)

\* C5: two requests of one kind that differ in a subject or filter value,
\* beyond letter case and surrounding blanks of their texts, derive
\* different keys.
KeysUnique ==
  (kpc > 0 /\ Canon(kReq[1]) # Canon(kReq[2])) => kKeys[1][1] # kKeys[1][2]

\* C6: two requests of one kind that differ only in the letter case or the
\* leading and trailing blanks of their subject and text filters derive the
\* same key.
KeysNormalized ==
  (kpc > 0 /\ Canon(kReq[1]) = Canon(kReq[2])) => kKeys[1][1] = kKeys[1][2]

\* C7: a key derived again from the same request object is the same key,
\* and two attraction requests whose interests lists are permutations of
\* one another derive the same key.
KeysDeterministic ==
  /\ \A i \in 1..Len(kKeys) : kKeys[i] = kKeys[1]
  /\ ( /\ kpc > 0
       /\ kReq[1].kind = "attractions"
       /\ kReq[1].destination = kReq[2].destination
       /\ kReq[1].options.limit = kReq[2].options.limit
       /\ IsPermutation(kReq[1].options.interests, kReq[2].options.interests) )
     => kKeys[1][1] = kKeys[1][2]

\* C7 witness: the keys of two attraction requests have been derived twice,
\* the interests lists being different orders of the same words.
KeysDeterministicWitness ==
  /\ kpc = 2
  /\ kReq[1].kind = "attractions"
  /\ kReq[1].destination = kReq[2].destination
  /\ kReq[1].options.limit = kReq[2].options.limit
  /\ IsPermutation(kReq[1].options.interests, kReq[2].options.interests)
  /\ kReq[1].options.interests # kReq[2].options.interests
  /\ kKeys[2][1] = kKeys[1][2]

\* C8: deriving a key leaves the request objects of the callers as they
\* were, and the store and the calls untouched.
KeyDerivationPure ==
  /\ kpc > 0 => kArg = kReq
  /\ kpc > 0 => (serpCache = << >> /\ \A c \in Calls : calls[c] = IdleCall)

\* ------------------------------------------------------------------------
\* Properties of the adapters
\* ------------------------------------------------------------------------

\* A text that is empty or made of blanks only.
BlankText(t) == \A i \in 1..Len(t) : t[i] = " "

\* A request without its destination or, for a flight, without its origin,
\* destination or departure date.
Unusable(r) ==
  IF r.kind = "flights"
    THEN BlankText(r.origin) \/ BlankText(r.destination)
           \/ BlankText(r.departureDate)
    ELSE BlankText(r.destination)

\* Call c has done nothing but fail.
NoWorkDone(c) ==
  /\ calls[c].key = Undefined
  /\ calls[c].lookups = 0
  /\ calls[c].supplierRuns = 0
  /\ calls[c].upstreamCalls = 0
  /\ calls[c].lookupCalls = 0
  /\ calls[c].writes = 0

\* C9: an adapter called with a blank destination, origin or departure date
\* fails with a bad-request error without deriving a key, looking into the
\* cache, invoking a supplier or making a network call, and leaves the
\* store as it is.
ValidationFailsFast ==
  /\ [](\A c \in Calls :
          (calls[c].pc # "idle" /\ Unusable(calls[c].req[1])) =>
            /\ calls[c].pc = "done"
            /\ calls[c].outcome[1].type = "error"
            /\ calls[c].outcome[1].statusCode = HTTP_STATUS.BAD_REQUEST
            /\ NoWorkDone(c))
  /\ [][\A c \in Calls :
          ( /\ calls[c].pc = "idle"
            /\ calls'[c].pc # "idle"
            /\ Unusable(calls'[c].req[1]) ) => serpCache' = serpCache]_vars

\* C9 witness: a flight call with a departure date of blanks has failed
\* while the store holds an entry.
ValidationWitness ==
  \E c \in Calls :
    /\ calls[c].pc = "done"
    /\ calls[c].req[1].kind = "flights"
    /\ calls[c].req[1].departureDate = <<" ">>
    /\ calls[c].outcome[1].statusCode = HTTP_STATUS.BAD_REQUEST
    /\ DOMAIN serpCache # {}

\* C10: without the credential, no adapter call looks into the cache, calls
\* the provider or the lookup service, or writes to the cache, and every
\* call that has ended has failed.
NoWorkWithoutCredential ==
  \A c \in Calls :
    ~isSerpApiConfigured =>
      /\ calls[c].lookups = 0
      /\ calls[c].upstreamCalls = 0
      /\ calls[c].lookupCalls = 0
      /\ calls[c].writes = 0
      /\ calls[c].pc = "done" => calls[c].outcome[1].type = "error"

\* ------------------------------------------------------------------------
\* Properties of the error outcomes
\* ------------------------------------------------------------------------

\* The ways the request to the provider fails.
UpstreamErrors == { "response", "noResponse", "TypeError" }

\* C11: without the credential, the error of an adapter call with a usable
\* request is a service-unavailable error (status 503) and differs from the
\* error of every failure of the request to the provider.
ConfigurationErrorDistinct ==
  \A c \in Calls :
    ( /\ ~isSerpApiConfigured
      /\ calls[c].pc = "done"
      /\ ~Unusable(calls[c].req[1]) )
    => /\ calls[c].outcome[1].type = "error"
       /\ calls[c].outcome[1].statusCode = HTTP_STATUS.SERVICE_UNAVAILABLE
       /\ \A e \in UpstreamErrors :
            calls[c].outcome[1]
              # handleSerpApiError(e, ContextOf(calls[c].req[1]))

\* Call c has ended with the failure of its request to the provider.
UpstreamFailed(c) == calls[c].pc = "done" /\ calls[c].failure # ""

\* C12: a failed request to the provider ends the call with an error that
\* tells the three ways of failing apart: the error of a rejection (a
\* non-2xx answer), of a missing response or timeout, and of any other
\* failure differ from one another, a rejection is not reported as a
\* missing response nor the reverse, and the failing call stores nothing:
\* the step leaves the store as it was.
UpstreamFailuresClassified ==
  /\ [](\A c \in Calls :
          UpstreamFailed(c) =>
            LET out == calls[c].outcome[1]
                ctx == ContextOf(calls[c].req[1])
            IN /\ out.type = "error"
               /\ calls[c].failure \in UpstreamErrors
               /\ \A e \in UpstreamErrors \ { calls[c].failure } :
                    out # handleSerpApiError(e, ctx)
               /\ (calls[c].failure = "response")
                    <=> (out.message = "SERP API returned error")
               /\ (calls[c].failure = "noResponse")
                    <=> (out.message = "SERP API did not respond")
               /\ calls[c].writes = 0)
  /\ [][\A c \in Calls :
          (calls[c].pc = "fetching" /\ Fails(c)) =>
            /\ calls'[c].failure \in UpstreamErrors
            /\ serpCache' = serpCache]_vars

\* C12 witness: two calls of one request have failed, one by a rejection and
\* one by a missing response, with different errors, and the store holds
\* nothing under their key.
UpstreamFailuresWitness ==
  \E c \in Calls, d \in Calls :
    /\ UpstreamFailed(c) /\ UpstreamFailed(d)
    /\ calls[c].failure = "response"
    /\ calls[d].failure = "noResponse"
    /\ calls[c].key = calls[d].key
    /\ calls[c].outcome # calls[d].outcome
    /\ calls[c].key[1] \notin DOMAIN serpCache

\* ------------------------------------------------------------------------
\* The adapters called with different limits
\* ------------------------------------------------------------------------

\* Restaurant and hotel searches of one destination that differ in their
\* limit only: none given, 0 (the query ?limit=0), 1.
LimitRequests ==
  { [kind |-> "restaurants", destination |-> <<"p">>,
     options |-> [NoRestaurantOptions EXCEPT !.limit = l]] :
       l \in { Undefined, Some(0), Some(1) } }
  \cup
  { [kind |-> "hotels", destination |-> <<"p">>,
     options |-> [NoHotelOptions EXCEPT !.limit = l]] :
       l \in { Undefined, Some(0) } }

searchRestaurantsLimited(c) ==
  \E r \in LimitRequests : r.kind = "restaurants" /\ Search(c, r)

searchHotelsLimited(c) ==
  \E r \in LimitRequests : r.kind = "hotels" /\ Search(c, r)

LimitNext ==
  \/ \E c \in Calls : searchRestaurantsLimited(c)
  \/ \E c \in Calls : searchHotelsLimited(c)
  \/ \E c \in Calls : UpstreamAnswer(c)
  \/ \E c \in Calls : UpstreamFailure(c)
  \/ Tick
  \/ Sweep

LimitSpec == Init /\ [][LimitNext]_vars

\* C13: for every adapter call with limit n (10 when none is given), the
\* list stored under the key of the call and the list the call returns,
\* on a miss or on a hit on an entry that any earlier call has stored,
\* have at most n elements.
LimitHonoured ==
  \A c \in Calls :
    calls[c].key # Undefined =>
      LET n == LimitOf(calls[c].req[1])
          k == calls[c].key[1]
      IN /\ (calls[c].pc = "done" /\ calls[c].outcome[1].type = "ok")
              => Len(calls[c].outcome[1].value) <= n
         /\ (calls[c].pc = "done" /\ k \in DOMAIN serpCache)
              => Len(serpCache[k].v) <= n

\* ------------------------------------------------------------------------
\* Properties of the flight adapter and the location normalizer
\* ------------------------------------------------------------------------

\* Two handlers that search flights, at any times.
FlightHandlers == { FirstCall, FirstCall + 1 }

FlightNext ==
  \/ \E c \in FlightHandlers : searchFlights(c)
  \/ \E c \in FlightHandlers : normalizeToIATACode(c)
  \/ \E c \in FlightHandlers : WikidataSearch(c)
  \/ \E c \in FlightHandlers : WikidataEntity(c)
  \/ \E c \in FlightHandlers : makeSerpApiRequest(c)
  \/ \E c \in FlightHandlers : UpstreamAnswer(c)
  \/ \E c \in FlightHandlers : UpstreamFailure(c)
  \/ Tick
  \/ Sweep

FlightSpec == Init /\ [][FlightNext]_vars

\* Call c is a flight call that has derived its key.
FlightCall(c) ==
  /\ calls[c].key # Undefined
  /\ calls[c].req[1].kind = "flights"

\* C14: the key of a flight call is derived from the origin, destination,
\* dates and options the caller gave and from nothing else, whatever codes
\* the locations resolve to; the codes are resolved inside the supplier
\* only, so a call that is served from the cache resolves nothing and sends
\* no request to the lookup service or the provider.
FlightKeyIndependentOfResolution ==
  \A c \in Calls :
    FlightCall(c) =>
      LET r == calls[c].req[1]
      IN /\ calls[c].key[1]
              = generateFlightCacheKey(r.origin, r.destination,
                                       r.departureDate, r.returnDate,
                                       r.options)
         /\ ( \/ calls[c].originCode # Undefined
              \/ calls[c].destinationCode # Undefined
              \/ calls[c].lookupCalls > 0
              \/ ResolvingOrigin(calls[c]) )
            => calls[c].supplierRuns = 1
         /\ calls[c].found = "live"
            => /\ calls[c].pc = "done"
               /\ calls[c].originCode = Undefined
               /\ calls[c].destinationCode = Undefined
               /\ calls[c].lookupCalls = 0
               /\ calls[c].upstreamCalls = 0

\* C14 witness: a flight call has resolved its origin to a Freebase id with
\* two requests to the lookup service and stored its result; another call
\* of the same origin, destination and date has been served that result
\* from the cache under the same key, having resolved nothing.
FlightKeyWitness ==
  \E c \in Calls, d \in Calls :
    /\ FlightCall(c) /\ FlightCall(d)
    /\ Populated(d)
    /\ calls[d].originCode = Some(<<"/", "m", "/", "1">>)
    /\ calls[d].lookupCalls = 2
    /\ ServedFromCache(c)
    /\ calls[c].key = calls[d].key
    /\ calls[c].lookupCalls = 0
    /\ calls[c].originCode = Undefined

\* ------------------------------------------------------------------------
\* Properties of the sweep and of invalidation
\* ------------------------------------------------------------------------

\* C15: the periodic sweep of serpCache leaves no entry whose deadline has
\* passed, leaves the store empty when the deadlines of all its entries
\* have passed, adds nothing, and keeps every entry whose deadline has not
\* passed as it was.
SweepRemovesExpired ==
  [][Sweep =>
       /\ \A k \in DOMAIN serpCache' : ~(serpCache'[k].t < now)
       /\ DOMAIN serpCache' \subseteq DOMAIN serpCache
       /\ (\A k \in DOMAIN serpCache : serpCache[k].t < now)
            => Cardinality(DOMAIN serpCache') = 0
       /\ \A k \in DOMAIN serpCache :
            ~(serpCache[k].t < now)
              => /\ k \in DOMAIN serpCache'
                 /\ serpCache'[k] = serpCache[k]]_vars

\* C15 witness: a flight call and a restaurant call have stored their
\* results, time has passed the deadline of the flight entry only, no
\* lookup has come across an expired entry, and the store holds the
\* restaurant entry but not the flight entry.
SweepWitness ==
  \E c \in Calls, d \in Calls :
    /\ Populated(c) /\ calls[c].req[1].kind = "flights"
    /\ Populated(d) /\ calls[d].req[1].kind = "restaurants"
    /\ \A e \in Calls : calls[e].found # "expired"
    /\ calls[c].key[1] \notin DOMAIN serpCache
    /\ calls[d].key[1] \in DOMAIN serpCache
    /\ now <= serpCache[calls[d].key[1]].t
    /\ now > FlightTTL

\* ------------------------------------------------------------------------
\* One adapter call and its network requests.  Every request is sent with a
\* timeout (DEFAULT_TIMEOUT to the provider, 5000 ms to the lookup service),
\* so a request in flight ends, with an answer or a failure; the code
\* between two requests runs to the next await.
\* ------------------------------------------------------------------------

TimeoutNext ==
  \/ \E c \in { FirstCall } : searchRestaurants(c)
  \/ \E c \in { FirstCall } : searchAttractions(c)
  \/ \E c \in { FirstCall } : searchHotels(c)
  \/ \E c \in { FirstCall } : searchFlights(c)
  \/ \E c \in { FirstCall } : normalizeToIATACode(c)
  \/ \E c \in { FirstCall } : WikidataSearch(c)
  \/ \E c \in { FirstCall } : WikidataEntity(c)
  \/ \E c \in { FirstCall } : makeSerpApiRequest(c)
  \/ \E c \in { FirstCall } : UpstreamAnswer(c)
  \/ \E c \in { FirstCall } : UpstreamFailure(c)
  \/ Tick
  \/ Sweep

TimeoutSpec ==
  /\ Init
  /\ [][TimeoutNext]_vars
  /\ WF_vars(normalizeToIATACode(FirstCall))
  /\ WF_vars(WikidataSearch(FirstCall))
  /\ WF_vars(WikidataEntity(FirstCall))
  /\ WF_vars(makeSerpApiRequest(FirstCall))
  /\ WF_vars(UpstreamAnswer(FirstCall) \/ UpstreamFailure(FirstCall))

\* C16: an adapter call that has started ends; a request to the provider
\* that gets no response in time ends the call with an error and leaves
\* the store as it was.
AdapterCallsComplete ==
  /\ \A c \in Calls : (calls[c].pc \in InFlight) ~> (calls[c].pc = "done")
  /\ [][\A c \in Calls :
          (calls[c].pc = "fetching" /\ calls'[c].failure = "noResponse")
            => /\ calls'[c].pc = "done"
               /\ calls'[c].outcome[1].type = "error"
               /\ calls'[c].writes = 0
               /\ serpCache' = serpCache]_vars

\* C16 witness: a flight call whose two requests to the lookup service and
\* whose request to the provider have all been sent has ended with the
\* error of a missing response, and the store holds nothing under its key.
AdapterCallsCompleteWitness ==
  \E c \in Calls :
    /\ FlightCall(c)
    /\ UpstreamFailed(c)
    /\ calls[c].failure = "noResponse"
    /\ calls[c].outcome[1].message = "SERP API did not respond"
    /\ calls[c].lookupCalls = 2
    /\ calls[c].upstreamCalls = 1
    /\ calls[c].key[1] \notin DOMAIN serpCache

\* ------------------------------------------------------------------------
\* Invalidation: the two cache domains, entries stored by getOrSet, and
\* clearCacheByPattern
\* ------------------------------------------------------------------------

\* stdTTL of apiCache, in seconds
ApiStdTTL == 300

Domains == { "serp", "api" }

\* The keys getOrSet is called with on apiCache.
ApiKeys == { S_restaurants \o <<":", "p">>, <<"u">> }

\* The patterns clearCacheByPattern is called with.
Patterns == { S_restaurants, S_limit \o <<"1">>, << >>, <<"z", "z">> }

\* keys.filter((key) => key.includes(pattern))
matchingKeys(cache, pattern) ==
  { key \in DOMAIN cache : includes(key, pattern) }

\* A wrong filter that takes the pattern for a prefix.
clearedByPrefix(cache, pattern) ==
  cacheDel(cache, { key \in DOMAIN cache : startsWith(key, pattern) })

\* The store after cache.del(matchingKeys).
clearedByPattern(cache, pattern) ==
  cacheDel(cache, matchingKeys(cache, pattern))

\* The keys getOrSet is called with on serpCache: those of the restaurant
\* searches.
SerpKeys == { CacheKeyOf(r) : r \in { q \in LimitRequests :
                                         q.kind = "restaurants" } }

\* getOrSet(cache, key, fetchFn) from its lookup to its write, for a
\* supplier that returns data: an entry that is live is left as it is, and
\* otherwise data is stored with the default TTL of the domain.
getOrSet(domain) ==
  /\ \E data \in RawLists :
       IF domain = "serp"
         THEN /\ \E key \in SerpKeys :
                   /\ cacheGet(serpCache, key, now) = Undefined
                   /\ serpCache'
                        = getOrSetStore(serpCache, key, data, Undefined, now)
              /\ UNCHANGED apiCache
         ELSE /\ \E key \in ApiKeys :
                   /\ cacheGet(apiCache, key, now) = Undefined
                   /\ apiCache'
                        = cacheSetTTL(apiCache, key, data, ApiStdTTL, now)
              /\ UNCHANGED serpCache
  /\ UNCHANGED << now, SERPAPI_KEY, calls, keyVars, deletedCount, tripVars >>

\* clearCacheByPattern(cache, pattern); cache.del returns the number of
\* entries it has deleted.
clearCacheByPattern(domain, pattern) ==
  LET cache   == IF domain = "serp" THEN serpCache ELSE apiCache
      cleared == clearedByPattern(cache, pattern)
  IN /\ IF domain = "serp"
          THEN /\ serpCache' = cleared
               /\ calls' = callsAfterClear(calls)
               /\ UNCHANGED apiCache
          ELSE /\ apiCache' = cleared
               /\ UNCHANGED << serpCache, calls >>
     /\ deletedCount'
          = Some(Cardinality(DOMAIN cache) - Cardinality(DOMAIN cleared))
     /\ UNCHANGED << now, SERPAPI_KEY, keyVars, tripVars >>

InvalidationNext ==
  \/ \E domain \in Domains : getOrSet(domain)
  \/ \E domain \in Domains, pattern \in Patterns :
       clearCacheByPattern(domain, pattern)
  \/ Tick

InvalidationSpec == Init /\ [][InvalidationNext]_vars

\* The entries of a cache domain.
CacheOf(domain) == IF domain = "serp" THEN serpCache ELSE apiCache

\* Text p occurs in text k.
Contains(k, p) ==
  \E i \in 1..(Len(k) + 1) :
    /\ i + Len(p) - 1 <= Len(k)
    /\ \A j \in 1..Len(p) : k[i + j - 1] = p[j]

\* C17: clearCacheByPattern(cache, p) removes the entries of that cache
\* whose keys contain p and no others, returns the number of entries it has
\* removed, and leaves the other entries of the cache and all entries of
\* the other cache as they were.
PatternInvalidationExact ==
  [][\A domain \in Domains, pattern \in Patterns :
       clearCacheByPattern(domain, pattern) =>
         LET before == CacheOf(domain)
             after  == IF domain = "serp" THEN serpCache' ELSE apiCache'
             hit    == { k \in DOMAIN before : Contains(k, pattern) }
         IN /\ DOMAIN after = DOMAIN before \ hit
            /\ \A k \in DOMAIN after : after[k] = before[k]
            /\ deletedCount' = Some(Cardinality(hit))
            /\ \A other \in Domains \ { domain } :
                 IF other = "serp" THEN serpCache' = serpCache
                                   ELSE apiCache' = apiCache]_vars

\* C17 witness: a clearCacheByPattern has removed one entry; serpCache holds
\* an entry of a restaurant key but none under the key with the limit, and
\* apiCache holds an entry under a restaurant key, too.
PatternInvalidationWitness ==
  /\ deletedCount = Some(1)
  /\ \E k \in DOMAIN serpCache : Contains(k, S_restaurants)
  /\ \A k \in DOMAIN serpCache : ~Contains(k, S_limit)
  /\ \E k \in DOMAIN apiCache : Contains(k, S_restaurants)
  /\ now > 0

\* ------------------------------------------------------------------------
\* The location normalizer under one flight search
\* ------------------------------------------------------------------------

\* Locations of every class the normalizer tells apart: a 3-letter code, a
\* Freebase id, a name of the table, a text that contains one, and texts of
\* none of these, one of them with a blank and an upper-case letter; and
\* locations of two classes: a 3-letter name of the table, a Freebase id
\* that contains a name of the table, and a name of the table that
\* contains an earlier name of the table.
NormLocations ==
  { <<"j", "f", "k">>, <<"/", "m", "/", "2">>, <<"l", "a">>,
    <<"s", "f", "4">>, <<"q", "z">>, <<" ", "Q", "z">>,
    <<"n", "y", "c">>, <<"/", "m", "/", "l", "a">>,
    <<"o", "a", "k", "l", "a", "n", "d">> }

NormRequests ==
  { FlightRequest(o, d, <<"1">>) :
      o \in NormLocations, d \in { <<"s", "f">>, <<"Q", "z", " ">> } }

searchFlightsBetween(c) == \E r \in NormRequests : Search(c, r)

NormNext ==
  \/ \E c \in { FirstCall } : searchFlightsBetween(c)
  \/ \E c \in { FirstCall } : normalizeToIATACode(c)
  \/ \E c \in { FirstCall } : WikidataSearch(c)
  \/ \E c \in { FirstCall } : WikidataEntity(c)
  \/ \E c \in { FirstCall } : makeSerpApiRequest(c)
  \/ \E c \in { FirstCall } : UpstreamAnswer(c)
  \/ \E c \in { FirstCall } : UpstreamFailure(c)

NormSpec == Init /\ [][NormNext]_vars

\* A location that is no 3-letter code and no Freebase id and matches no
\* name of the table, exactly or in part.
Unmapped(location) ==
  /\ ~IsIataShaped(trim(location))
  /\ ~startsWith(trim(location), S_freebase)
  /\ TableExact(trim(toLowerCase(location))) = {}
  /\ TablePartial(trim(toLowerCase(location))) = {}

\* The locations of call c that have been resolved, each with its code.
ResolvedLocations(c) ==
  (IF calls[c].originCode = Undefined THEN {}
     ELSE { << calls[c].req[1].origin, calls[c].originCode[1] >> })
  \cup
  (IF calls[c].destinationCode = Undefined THEN {}
     ELSE { << calls[c].req[1].destination, calls[c].destinationCode[1] >> })

\* The code of an unmapped location is not a Freebase id: the lookup
\* service has given nothing.
LookupGaveNothing(lc) == Unmapped(lc[1]) /\ ~startsWith(lc[2], S_freebase)

\* C18 as claimed: an unmapped location for which the lookup service gives
\* nothing resolves to the location trimmed and in upper case.
FallbackUppercased ==
  \A c \in Calls :
    FlightCall(c) =>
      \A lc \in ResolvedLocations(c) :
        LookupGaveNothing(lc) => lc[2] = toUpperCase(trim(lc[1]))

\* C18 as amended: an unmapped location for which the lookup service gives
\* nothing resolves to the location trimmed, its letters as they were.
FallbackPassthrough ==
  \A c \in Calls :
    FlightCall(c) =>
      \A lc \in ResolvedLocations(c) :
        LookupGaveNothing(lc) => lc[2] = trim(lc[1])

\* C18 witness: a flight call has asked the lookup service about an origin
\* with a leading blank and an upper-case letter and resolved it to the
\* text without the blank.
FallbackPassthroughWitness ==
  \E c \in Calls :
    /\ FlightCall(c)
    /\ calls[c].req[1].origin = <<" ", "Q", "z">>
    /\ calls[c].lookupCalls > 0
    /\ calls[c].originCode = Some(<<"Q", "z">>)

\* The steps of a flight call in which a location is being resolved.
Resolving ==
  { "normOrigin", "originSearch", "originEntity",
    "normDestination", "destinationSearch", "destinationEntity" }

\* C19: no step of the resolution of a location ends the flight call or
\* gives it an error, whatever the lookup service answers: resolving the
\* origin goes on to the destination with a code for the origin, resolving
\* the destination goes on to the request to the provider with a code for
\* both, and a flight call that has failed has failed at its validation,
\* for the missing credential or at the request to the provider.
ResolutionNeverAborts ==
  /\ [][\A c \in Calls :
          (calls[c].pc \in Resolving /\ calls'[c] # calls[c]) =>
            /\ calls'[c].pc \in Resolving \cup { "request" }
            /\ calls'[c].outcome = Undefined
            /\ (ResolvingOrigin(calls[c]) /\ ~ResolvingOrigin(calls'[c]))
                 => /\ calls'[c].pc = "normDestination"
                    /\ calls'[c].originCode # Undefined
            /\ calls'[c].pc = "request"
                 => /\ calls'[c].originCode # Undefined
                    /\ calls'[c].destinationCode # Undefined]_vars
  /\ [](\A c \in Calls :
          (FlightCall(c) /\ calls[c].pc = "done"
             /\ calls[c].outcome[1].type = "error")
            => \/ ~isSerpApiConfigured
               \/ UpstreamFailed(c))
  /\ [](\A c \in Calls :
          (FlightCall(c) /\ calls[c].upstreamCalls > 0)
            => /\ calls[c].originCode # Undefined
               /\ calls[c].destinationCode # Undefined)

\* C19 witness: the lookup service has been asked about both locations of
\* a flight call and has given nothing for either, and the request to the
\* provider is in flight with the trimmed texts as codes.
ResolutionNeverAbortsWitness ==
  \E c \in Calls :
    /\ FlightCall(c)
    /\ calls[c].pc = "fetching"
    /\ calls[c].lookupCalls >= 2
    /\ calls[c].originCode = Some(trim(calls[c].req[1].origin))
    /\ calls[c].destinationCode = Some(trim(calls[c].req[1].destination))
    /\ Unmapped(calls[c].req[1].origin)
    /\ Unmapped(calls[c].req[1].destination)

\* ------------------------------------------------------------------------
\* aiController.ts: planTrip
\* ------------------------------------------------------------------------

S_yourLocation ==
  << "y", "o", "u", "r", " ", "l", "o", "c", "a", "t", "i", "o", "n" >>

\* getBudgetCabinClass(undefined)
S_economy == << "e", "c", "o", "n", "o", "m", "y" >>

\* The bodies of the requests to planTrip: origin, originLocation (an
\* object, with or without a city), destination (trimmed by the validator
\* of the route) and dates; budget, travelers and interests are not given.
TripRequests ==
  [ origin : { Undefined, Some(<< >>), Some(<<"l", "a">>) },
    originLocation : { Undefined, Some([city |-> Undefined]),
                       Some([city |-> Some(<<"j", "f", "k">>)]) },
    destination : { Undefined, Some(<< >>), Some(<<"s", "f">>) },
    dates : { Undefined, Some([start |-> <<"1">>, end |-> <<"2">>]) } ]

\* The adapters planTrip calls, each with its call.
TripCalls == { "restaurants", "attractions", "hotels", "flights" }

\* A wrong choice that prefers the city of originLocation to origin.
originCityOfLocation(req) ==
  IF req.originLocation # Undefined /\ TruthyStr(req.originLocation[1].city)
    THEN req.originLocation[1].city[1]
  ELSE IF TruthyStr(req.origin) THEN req.origin[1]
  ELSE S_yourLocation

\* requestData.origin || requestData.originLocation?.city || 'your location'
originCityOf(req) ==
  IF TruthyStr(req.origin) THEN req.origin[1]
  ELSE IF req.originLocation # Undefined
            /\ TruthyStr(req.originLocation[1].city)
    THEN req.originLocation[1].city[1]
    ELSE S_yourLocation

\* getAirportCode(location); of airportMap the entry 'la': 'LAX'.
getAirportCode(location) ==
  IF Len(location) = 0 THEN location
  ELSE IF Len(location) = 3 /\ \A i \in 1..3 : IsUpper(location[i])
    THEN location
  ELSE IF trim(toLowerCase(location)) = <<"l", "a">>
    THEN <<"L", "A", "X">>
  ELSE toUpperCase(location)

\* The arguments planTrip gives the adapter of a kind.
TripSearch(req, kind) ==
  CASE kind = "restaurants" ->
         [kind |-> kind, destination |-> req.destination[1],
          options |-> [cuisine |-> Undefined,
                       priceLevel |-> Some(<<"$", "$">>),
                       limit |-> Some(10)]]
    [] kind = "attractions" ->
         [kind |-> kind, destination |-> req.destination[1],
          options |-> [interests |-> Some(<< >>), limit |-> Some(15)]]
    [] kind = "hotels" ->
         [kind |-> kind, destination |-> req.destination[1],
          options |->
            [checkIn |-> IF req.dates = Undefined THEN Undefined
                           ELSE Some(req.dates[1].start),
             checkOut |-> IF req.dates = Undefined THEN Undefined
                            ELSE Some(req.dates[1].end),
             budget |-> Some(200), limit |-> Some(8)]]
    [] kind = "flights" ->
         [kind |-> kind,
          origin |-> getAirportCode(originCityOf(req)),
          destination |-> getAirportCode(req.destination[1]),
          departureDate |-> req.dates[1].start,
          returnDate |-> Some(req.dates[1].end),
          options |-> [adults |-> Some(1), children |-> Some(0),
                       cabinClass |-> Some(S_economy),
                       limit |-> Some(8)]]

\* The adapters planTrip calls for a request: the flight adapter only when
\* the request has a start date.
TripSearches(req) ==
  IF req.dates # Undefined /\ Len(req.dates[1].start) > 0
    THEN TripCalls
    ELSE TripCalls \ { "flights" }

\* A wrong order of the questions: the destination is asked for first.
planTripStepDestinationFirst(req) ==
  IF ~TruthyStr(req.destination) THEN "request_destination"
  ELSE IF ~TruthyStr(req.origin) /\ req.originLocation = Undefined
    THEN "request_origin"
  ELSE "plan"

\* The step planTrip takes for a request.
planTripStep(req) ==
  IF ~TruthyStr(req.origin) /\ req.originLocation = Undefined
    THEN "request_origin"
  ELSE IF ~TruthyStr(req.destination) THEN "request_destination"
  ELSE "plan"

\* The response (status 200, success: true) that asks for the origin or
\* for the destination.
TripQuestion(req, step) ==
  [ step |-> Some(step),
    requestOriginLocation |-> Some(step = "request_origin"),
    origin |-> IF step = "request_origin" THEN Undefined
               ELSE Some(originCityOf(req)),
    itinerary |-> FALSE,
    dataSource |-> "",
    found |-> [k \in TripCalls |-> << >>],
    success |-> TRUE,
    suggestions |-> Undefined,
    dailyPlan |-> Undefined,
    estimatedBudget |-> FALSE ]

\* generateSuggestions(request): the types of the suggestions, in order.
generateSuggestions ==
  << "activity", "dining", "accommodation" >>

\* generateSuggestionsFromSerpData(restaurants, attractions, hotels): the
\* types of the suggestions, one for each list that is not empty.
generateSuggestionsFromSerpData(restaurants, attractions, hotels) ==
  (IF Len(restaurants) > 0 THEN << "dining" >> ELSE << >>)
    \o (IF Len(attractions) > 0 THEN << "activity" >> ELSE << >>)
    \o (IF Len(hotels) > 0 THEN << "accommodation" >> ELSE << >>)

\* generateItinerary(request): of the first day, the place of the morning
\* activity and the place of the lunch; the mock plan names none.
generateItinerary ==
  [ morning |-> Undefined, lunch |-> Undefined ]

\* generateItineraryFromSerpData(request, attractions, restaurants): of
\* the first day, the first attraction and the first restaurant.
generateItineraryFromSerpData(attractions, restaurants) ==
  [ morning |-> IF Len(attractions) > 0 THEN Some(attractions[1])
                ELSE Undefined,
    lunch |-> IF Len(restaurants) > 0 THEN Some(restaurants[1])
              ELSE Undefined ]

\* A wrong plan that carries a step field.
TripPlanStepped(req, dataSource, found) ==
  [ TripQuestion(req, "complete") EXCEPT
      !.itinerary = TRUE, !.dataSource = dataSource, !.found = found,
      !.suggestions = Some(generateSuggestions),
      !.dailyPlan = Some(generateItinerary),
      !.estimatedBudget = TRUE ]

\* The response (status 200, success: true) with the trip plan; found
\* holds the lists of the adapters.
TripPlan(req, dataSource, found) ==
  [ step |-> Undefined,
    requestOriginLocation |-> Undefined,
    origin |-> Some(originCityOf(req)),
    itinerary |-> TRUE,
    dataSource |-> dataSource,
    found |-> found,
    success |-> TRUE,
    suggestions |->
      Some(IF dataSource = "serp_api"
             THEN generateSuggestionsFromSerpData(found["restaurants"],
                    found["attractions"], found["hotels"])
             ELSE generateSuggestions),
    dailyPlan |->
      Some(IF dataSource = "serp_api"
             THEN generateItineraryFromSerpData(found["attractions"],
                                                found["restaurants"])
             ELSE generateItinerary),
    estimatedBudget |-> TRUE ]

\* An adapter called with request r, from its call to its first await.
searchStarted(r, cache, time) ==
  LET invalid == ValidationError(r)
      started == [IdleCall EXCEPT !.req = Some(r)]
      keyed   == [started EXCEPT !.req = Some(RequestAfterKey(r)),
                                 !.key = Some(CacheKeyOf(r))]
  IN IF invalid # Undefined
       THEN [started EXCEPT !.pc = "done", !.outcome = invalid]
       ELSE getOrSetBegin(keyed, cache, time)

\* planTrip from the arrival of a request to its response or, when it goes
\* on to plan with the credential configured, to the await of its adapters.
planTrip(req) ==
  /\ trip = Undefined
  /\ LET step == planTripStep(req)
     IN IF step # "plan"
          THEN /\ trip' = Some([req |-> req, pc |-> "done",
                                res |-> Some(TripQuestion(req, step))])
               /\ UNCHANGED << serpCache, calls >>
        ELSE IF ~isSerpApiConfigured
          THEN /\ trip' = Some([req |-> req, pc |-> "done",
                                res |-> Some(TripPlan(req, "mock",
                                         [k \in TripCalls |-> << >>]))])
               /\ UNCHANGED << serpCache, calls >>
        ELSE /\ trip' = Some([req |-> req, pc |-> "searching",
                              res |-> Undefined])
             /\ calls' = [k \in TripCalls |->
                            IF k \in TripSearches(req)
                              THEN searchStarted(TripSearch(req, k),
                                                 serpCache, now)
                              ELSE IdleCall]
             /\ serpCache' =
                  cacheDel(serpCache,
                    { key \in { CacheKeyOf(TripSearch(req, k)) :
                                  k \in TripSearches(req) } :
                        /\ key \in DOMAIN serpCache
                        /\ cacheExpired(serpCache, key, now) })
  /\ UNCHANGED << now, SERPAPI_KEY, keyVars, adminVars >>

\* A wrong extraction that drops the list of a fulfilled call.
TripFoundDropped(call) == << >>

\* The list planTrip takes from the settled call of an adapter.
TripFound(call) ==
  IF call.pc = "done" /\ call.outcome[1].type = "ok"
    THEN call.outcome[1].value
    ELSE << >>

\* Promise.allSettled has settled: planTrip responds with the plan.
planTripRespond ==
  /\ trip # Undefined
  /\ trip[1].pc = "searching"
  /\ \A k \in TripSearches(trip[1].req) : calls[k].pc = "done"
  /\ trip' = Some([trip[1] EXCEPT
                     !.pc = "done",
                     !.res = Some(TripPlan(trip[1].req, "serp_api",
                                   [k \in TripCalls |-> TripFound(calls[k])]))])
  /\ UNCHANGED << cacheVars, keyVars, adminVars >>

PlanInit ==
  /\ now = 0
  /\ SERPAPI_KEY \in { Undefined, Some(<<"k">>) }
  /\ serpCache = << >>
  /\ calls = [k \in TripCalls |-> IdleCall]
  /\ kpc = 0
  /\ kReq = << >>
  /\ kArg = << >>
  /\ kKeys = << >>
  /\ apiCache = << >>
  /\ deletedCount = Undefined
  /\ trip = Undefined

PlanNext ==
  \/ \E req \in TripRequests : planTrip(req)
  \/ \E c \in TripCalls : normalizeToIATACode(c)
  \/ \E c \in TripCalls : WikidataSearch(c)
  \/ \E c \in TripCalls : WikidataEntity(c)
  \/ \E c \in TripCalls : makeSerpApiRequest(c)
  \/ \E c \in TripCalls : UpstreamAnswer(c)
  \/ \E c \in TripCalls : UpstreamFailure(c)
  \/ planTripRespond

PlanSpec == PlanInit /\ [][PlanNext]_vars

\* ------------------------------------------------------------------------
\* Properties of planTrip
\* ------------------------------------------------------------------------

\* The request carries neither an origin nor an origin location.
NoOriginGiven(req) ==
  /\ req.origin = Undefined \/ req.origin = Some(<< >>)
  /\ req.originLocation = Undefined

\* No adapter has been called and the store is empty.
NoSearchDone ==
  /\ \A k \in TripCalls : calls[k] = IdleCall
  /\ serpCache = << >>

OriginNamed(req) ==
  \/ req.origin # Undefined /\ req.origin # Some(<< >>)
  \/ /\ req.originLocation # Undefined
     /\ req.originLocation[1].city # Undefined
     /\ req.originLocation[1].city # Some(<< >>)

\* The origin the request names: origin when it is given, the city of
\* originLocation otherwise.
NamedOrigin(req) ==
  IF req.origin # Undefined /\ req.origin # Some(<< >>)
    THEN req.origin
    ELSE req.originLocation[1].city

\* The request has no destination.
NoDestinationGiven(req) ==
  req.destination = Undefined \/ req.destination = Some(<< >>)

TickFlightTTL ==
  /\ now + FlightTTL <= MaxTime
  /\ now' = now + FlightTTL
  /\ UNCHANGED << SERPAPI_KEY, serpCache, calls, keyVars, adminVars, tripVars >>

TtlNext ==
  \/ \E c \in FlightHandlers : searchFlights(c)
  \/ \E c \in FlightHandlers : searchHotels(c)
  \/ \E c \in FlightHandlers : normalizeToIATACode(c)
  \/ \E c \in FlightHandlers : WikidataSearch(c)
  \/ \E c \in FlightHandlers : WikidataEntity(c)
  \/ \E c \in FlightHandlers : makeSerpApiRequest(c)
  \/ \E c \in FlightHandlers : UpstreamAnswer(c)
  \/ \E c \in FlightHandlers : UpstreamFailure(c)
  \/ Tick
  \/ TickFlightTTL
  \/ Sweep

TtlSpec == Init /\ [][TtlNext]_vars

\* C23: the entry a flight call stores gets the deadline store time + 300 s,
\* the override the flight adapter gives getOrSet; the entry a call of
\* another kind stores gets store time + 900 s, the default of the domain;
\* the store never holds a flight entry whose deadline lies more than 300 s
\* ahead, and a flight call that is served from the store is served an
\* entry stored at most 300 s before.
TtlByKind ==
  /\ [][\A c \in Calls :
          Completes(c) =>
            LET r == calls[c].req[1]
                e == serpCache'[calls[c].key[1]]
            IN /\ r.kind = "flights" => e.t - now = FlightTTL
               /\ r.kind # "flights" => e.t - now = SerpStdTTL
               /\ TtlOf(r) # Undefined => e.t - now = TtlOf(r)[1]]_vars
  /\ [](\A c \in Calls :
          (FlightCall(c) /\ calls[c].key[1] \in DOMAIN serpCache)
            => serpCache[calls[c].key[1]].t <= now + FlightTTL)
  /\ [][\A c \in Calls :
          (Starts(c) /\ calls'[c].req[1].kind = "flights"
             /\ calls'[c].supplierRuns = 0)
            => LET e == serpCache[calls'[c].key[1]]
               IN now - (e.t - FlightTTL) <= FlightTTL]_vars

\* C23 witness: 300 s after the start a flight call has been served the
\* entry another flight call stored at the start.
TtlByKindWitness ==
  \E c \in Calls, d \in Calls :
    /\ now = FlightTTL
    /\ FlightCall(c) /\ ServedFromCache(c)
    /\ FlightCall(d) /\ Populated(d)
    /\ calls[c].key[1] \in DOMAIN serpCache
    /\ serpCache[calls[c].key[1]].t = FlightTTL

\* The code of the first name of the table, in its order, that satisfies
\* Match.
FirstOfTable(Match(_)) ==
  LET first == CHOOSE i \in 1..Len(CITY_TO_IATA) :
                 /\ Match(CITY_TO_IATA[i][1])
                 /\ \A j \in 1..(i - 1) : ~Match(CITY_TO_IATA[j][1])
  IN CITY_TO_IATA[first][2]

\* The step of the normalizer that decides a location, 1 to 4 without the
\* network, 5 with it.
DecidingStep(location) ==
  LET t == trim(location)
      n == toLowerCase(t)
  IN IF Len(t) = 3 /\ \A i \in 1..3 : IsLetter(t[i]) THEN 1
     ELSE IF Len(t) >= 3 /\ SubSeq(t, 1, 3) = <<"/", "m", "/">> THEN 2
     ELSE IF \E i \in 1..Len(CITY_TO_IATA) : CITY_TO_IATA[i][1] = n THEN 3
     ELSE IF \E i \in 1..Len(CITY_TO_IATA) :
               \/ includes(n, CITY_TO_IATA[i][1])
               \/ includes(CITY_TO_IATA[i][1], n) THEN 4
     ELSE 5

\* C24: the code of every location a flight call has resolved is decided
\* by the first step that applies: a 3-letter text resolves to itself in
\* upper case, whatever the table says; else a text that starts with
\* "/m/" to itself; else a name of the table to its code; else a text that
\* contains or is contained in names of the table to the code of the first
\* of them; else to the Freebase id of the lookup service or, without one,
\* to itself.  A call whose locations are decided by the first four steps
\* never calls the lookup service.
NormalizerStepOrder ==
  \A c \in Calls :
    FlightCall(c) =>
      /\ \A lc \in ResolvedLocations(c) :
           LET t == trim(lc[1])
               n == toLowerCase(t)
               Exact(city) == city = n
               Partial(city) == includes(n, city) \/ includes(city, n)
           IN CASE DecidingStep(lc[1]) = 1 -> lc[2] = toUpperCase(t)
                [] DecidingStep(lc[1]) = 2 -> lc[2] = t
                [] DecidingStep(lc[1]) = 3 -> lc[2] = FirstOfTable(Exact)
                [] DecidingStep(lc[1]) = 4 -> lc[2] = FirstOfTable(Partial)
                [] DecidingStep(lc[1]) = 5 ->
                     lc[2] = t \/ startsWith(lc[2], S_freebase)
      /\ ( /\ DecidingStep(calls[c].req[1].origin) < 5
           /\ DecidingStep(calls[c].req[1].destination) < 5 )
         => calls[c].lookupCalls = 0

\* C24 witness: a flight call from "nyc", a 3-letter name of the table
\* with the code JFK, to "sf" has resolved its origin to "NYC" and its
\* destination to the code of the table, without the lookup service.
NormalizerStepOrderWitness ==
  \E c \in Calls :
    /\ FlightCall(c)
    /\ calls[c].req[1].origin = <<"n", "y", "c">>
    /\ calls[c].originCode = Some(<<"N", "Y", "C">>)
    /\ calls[c].destinationCode = Some(<<"S", "F", "O">>)
    /\ calls[c].lookupCalls = 0

\* Every search planTrip has made for its request has failed.
SearchesFailed ==
  \A k \in TripSearches(trip[1].req) :
    calls[k].pc = "done" /\ calls[k].outcome[1].type = "error"

\* C25: a plan is built by the mock generators, with the data source
\* 'mock', whenever the credential is not configured or the searches have
\* failed, and from the lists of the searches, with the data source
\* 'serp_api', only when a search has returned data.
MockPlanWhenSearchesFail ==
  (trip # Undefined /\ trip[1].pc = "done" /\ trip[1].res[1].itinerary) =>
    LET res == trip[1].res[1]
    IN /\ (~isSerpApiConfigured \/ SearchesFailed) =>
            /\ res.dataSource = "mock"
            /\ res.suggestions = Some(generateSuggestions)
            /\ res.dailyPlan = Some(generateItinerary)
       /\ res.dataSource = "serp_api" =>
            \E k \in TripCalls : Len(res.found[k]) > 0

\* ------------------------------------------------------------------------
\* getOrSet on both cache domains: two handlers that search restaurants
\* and hotels through serpCache, and getOrSet calls on apiCache
\* ------------------------------------------------------------------------

FrameNext ==
  \/ \E c \in FlightHandlers : searchRestaurantsLimited(c)
  \/ \E c \in FlightHandlers : searchHotelsLimited(c)
  \/ \E c \in FlightHandlers : UpstreamAnswer(c)
  \/ \E c \in FlightHandlers : UpstreamFailure(c)
  \/ getOrSet("api")
  \/ Tick

FrameSpec == Init /\ [][FrameNext]_vars

\* The keys of a store whose entry a step adds, overwrites or removes.
Touched(cache, cacheAfter) ==
  { k \in DOMAIN cache \cup DOMAIN cacheAfter :
      \/ k \notin DOMAIN cache
      \/ k \notin DOMAIN cacheAfter
      \/ cache[k] # cacheAfter[k] }

\* C26: every step of an adapter's getOrSet call, be it a lookup that hits,
\* a lookup that misses, the write after the supplier or the supplier's
\* failure, adds, overwrites and removes no entry of serpCache under a key
\* other than the key of the call, and leaves apiCache as it is; a getOrSet
\* call on apiCache touches at most one key of apiCache and leaves
\* serpCache as it is.
GetOrSetFrame ==
  [][/\ \A c \in Calls :
          calls'[c] # calls[c] =>
            /\ apiCache' = apiCache
            /\ Touched(serpCache, serpCache')
                 \subseteq { k \in DOMAIN serpCache \cup DOMAIN serpCache' :
                               calls'[c].key = Some(k) }
     /\ getOrSet("api") =>
          /\ serpCache' = serpCache
          /\ Cardinality(Touched(apiCache, apiCache')) <= 1]_vars

\* C26 witness: a call has missed, run its supplier and stored its result
\* while serpCache holds an expired entry under another key and apiCache
\* holds an entry; both are still there.
GetOrSetFrameWitness ==
  \E c \in Calls, k \in DOMAIN serpCache :
    /\ Populated(c)
    /\ calls[c].key # Some(k)
    /\ calls[c].key[1] \in DOMAIN serpCache
    /\ serpCache[calls[c].key[1]].t = now + SerpStdTTL
    /\ cacheExpired(serpCache, k, now)
    /\ apiCache # << >>

\* ------------------------------------------------------------------------
\* Key derivation for two requests of different kinds
\* ------------------------------------------------------------------------

CrossKeyInit ==
  /\ now = 0
  /\ SERPAPI_KEY = Undefined
  /\ serpCache = << >>
  /\ calls = [c \in Calls |-> IdleCall]
  /\ kpc = 0
  /\ \E a \in KeyRequests, b \in KeyRequests :
       a.kind # b.kind /\ kReq = << a, b >>
  /\ kArg = kReq
  /\ kKeys = << >>
  /\ apiCache = << >>
  /\ deletedCount = Undefined
  /\ trip = Undefined

\* The generator of each request's kind runs on it.
DeriveKeysOfKinds(kind) ==
  /\ kpc < Derivations
  /\ kArg[1].kind = kind
  /\ kpc' = kpc + 1
  /\ kKeys' = Append(kKeys, << CacheKeyOf(kArg[1]), CacheKeyOf(kArg[2]) >>)
  /\ kArg' = << RequestAfterKey(kArg[1]), RequestAfterKey(kArg[2]) >>
  /\ UNCHANGED << kReq, cacheVars, adminVars, tripVars >>

CrossKeyNext == \E kind \in TripCalls : DeriveKeysOfKinds(kind)

CrossKeySpec == CrossKeyInit /\ [][CrossKeyNext]_vars

\* The word a kind's keys start with.
KindWord(kind) ==
  CASE kind = "restaurants" -> S_restaurants
    [] kind = "attractions" -> S_attractions
    [] kind = "hotels" -> S_hotels
    [] kind = "flights" -> S_flights

\* C27: the keys derived for two requests of different kinds are never
\* equal: each starts with the word of its kind and a colon, and no key
\* starts with the word of another kind and a colon.
KindsKeptApart ==
  \A i \in 1..Len(kKeys) :
    kReq[1].kind # kReq[2].kind =>
      /\ kKeys[i][1] # kKeys[i][2]
      /\ \A j \in 1..2, kind \in TripCalls :
           startsWith(kKeys[i][j], KindWord(kind) \o <<":">>)
             <=> kind = kReq[j].kind

\* C27 witness: the keys of a restaurant search and of an attraction search
\* of the same destination, both without options, have been derived, and
\* they differ in their first part only.
KindsKeptApartWitness ==
  /\ kpc > 0
  /\ kReq[1].kind = "restaurants" /\ kReq[2].kind = "attractions"
  /\ kReq[1].destination = kReq[2].destination
  /\ kReq[1].options = NoRestaurantOptions
  /\ kReq[2].options = NoAttractionOptions
  /\ kKeys[1][1] = S_restaurants \o <<":", "p">>
  /\ kKeys[1][2] = S_attractions \o <<":", "p">>

\* ------------------------------------------------------------------------
\* Clearing serpCache while adapter calls are in progress
\* ------------------------------------------------------------------------

\* A wrong clear that deletes the entry of one key only.
clearedFirst(cache) ==
  IF DOMAIN cache = {} THEN cache
  ELSE cacheDel(cache, { CHOOSE k \in DOMAIN cache : TRUE })

\* serpCache after serpCache.del(serpCache.keys()).
clearedAll(cache) == cacheDel(cache, DOMAIN cache)

\* clearSerpCache()
clearSerpCache ==
  /\ serpCache' = clearedAll(serpCache)
  /\ calls' = callsAfterClear(calls)
  /\ UNCHANGED << now, SERPAPI_KEY, keyVars, adminVars, tripVars >>

ClearNext ==
  \/ \E c \in FlightHandlers : searchRestaurantsLimited(c)
  \/ \E c \in FlightHandlers : UpstreamAnswer(c)
  \/ \E c \in FlightHandlers : UpstreamFailure(c)
  \/ clearSerpCache
  \/ \E pattern \in Patterns : clearCacheByPattern("serp", pattern)
  \/ Tick

ClearSpec == Init /\ [][ClearNext]_vars

\* No call has a supplier in flight.
NoSupplierInFlight == \A c \in Calls : calls[c].pc \notin InFlight

\* C28: a clear of serpCache, of all entries or of those that match a
\* pattern, cancels no call, and a supplier that was in flight during a
\* clear still stores its result under its key when it completes.  From an
\* empty store with no supplier in flight, as clearSerpCache leaves it when
\* no supplier is in flight, no step brings an entry back and every
\* getOrSet that starts is a miss.
ClearDoesNotCancelSuppliers ==
  /\ [][clearSerpCache =>
          /\ serpCache' = << >>
          /\ \A c \in Calls : calls'[c].pc = calls[c].pc]_vars
  /\ [][\A pattern \in Patterns :
          clearCacheByPattern("serp", pattern) =>
            \A c \in Calls : calls'[c].pc = calls[c].pc]_vars
  /\ [][\A c \in Calls :
          (Completes(c) /\ calls[c].clearedInFlight) =>
            /\ calls[c].key[1] \in DOMAIN serpCache'
            /\ serpCache'[calls[c].key[1]].v = calls'[c].outcome[1].value]_vars
  /\ [][(serpCache = << >> /\ NoSupplierInFlight) =>
          /\ serpCache' = << >>
          /\ \A c \in Calls :
               Starts(c) => /\ calls'[c].found = "none"
                            /\ calls'[c].supplierRuns = 1]_vars

\* C28 witness: the only call that has started had its supplier in flight
\* when serpCache was cleared, has completed since, and its result is in
\* the store under its key.
ClearDoesNotCancelSuppliersWitness ==
  \E c \in Calls :
    /\ calls[c].clearedInFlight
    /\ Populated(c)
    /\ calls[c].key[1] \in DOMAIN serpCache
    /\ serpCache[calls[c].key[1]].v = calls[c].outcome[1].value
    /\ \A d \in Calls \ {c} : calls[d] = IdleCall

\* C29: when the supplier of a call completes with an empty list, the
\* empty list is stored under the key of the call with the TTL of the
\* domain; and a call that starts while the store holds an empty list
\* under its key, the deadline not passed, returns the empty list at once,
\* without its supplier and without a request to the provider.
EmptyResultCached ==
  [][\A c \in Calls :
       /\ (Completes(c) /\ calls'[c].outcome[1].value = << >>) =>
            /\ calls[c].key[1] \in DOMAIN serpCache'
            /\ serpCache'[calls[c].key[1]]
                 = [v |-> << >>, t |-> now + SerpStdTTL]
       /\ ( /\ Starts(c)
            /\ calls'[c].key[1] \in DOMAIN serpCache
            /\ serpCache[calls'[c].key[1]].v = << >>
            /\ now <= serpCache[calls'[c].key[1]].t ) =>
            /\ calls'[c].pc = "done"
            /\ calls'[c].outcome = Some(Fulfilled(<< >>))
            /\ calls'[c].supplierRuns = 0
            /\ calls'[c].upstreamCalls = 0
            /\ serpCache' = serpCache]_vars

\* C29 witness: a restaurant search without a limit got no results from
\* the provider, and the same search, made later on the deadline of the
\* entry, has returned the empty list from the store.
EmptyResultCachedWitness ==
  \E c \in Calls, d \in Calls :
    /\ Populated(c)
    /\ calls[c].req[1].options.limit = Undefined
    /\ calls[c].outcome[1].value = << >>
    /\ calls[d].req = calls[c].req
    /\ ServedFromCache(d)
    /\ calls[d].outcome[1].value = << >>
    /\ calls[d].upstreamCalls = 0
    /\ now = SerpStdTTL

\* C30: while planTrip awaits its searches, the failure of one leaves the
\* other searches and the request as they are; and the response, which is
\* a successful plan whatever searches have failed, holds for every
\* category the list of its search when the search succeeded and the
\* empty list when it failed.
SearchFailuresIsolated ==
  /\ [][\A k \in TripCalls :
          (trip # Undefined /\ trip[1].pc = "searching" /\ Fails(k)) =>
            /\ trip' = trip
            /\ \A j \in TripCalls \ {k} : calls'[j] = calls[j]]_vars
  /\ []((trip # Undefined /\ trip[1].pc = "done" /\ isSerpApiConfigured
           /\ planTripStep(trip[1].req) = "plan") =>
          LET res == trip[1].res[1]
          IN /\ res.success /\ res.itinerary /\ res.step = Undefined
             /\ \A k \in TripSearches(trip[1].req) :
                  /\ calls[k].pc = "done"
                  /\ calls[k].outcome[1].type = "ok"
                       => res.found[k] = calls[k].outcome[1].value
                  /\ calls[k].outcome[1].type = "error"
                       => res.found[k] = << >>)

\* C30 witness: planTrip has responded with a plan after the searches for
\* attractions and flights failed and those for restaurants and hotels
\* found a place each; the response holds the two places and no
\* attractions and flights.
SearchFailuresIsolatedWitness ==
  /\ trip # Undefined
  /\ trip[1].pc = "done"
  /\ trip[1].res[1].success
  /\ calls["attractions"].pc = "done"
  /\ calls["attractions"].outcome[1].type = "error"
  /\ calls["flights"].pc = "done"
  /\ calls["flights"].outcome[1].type = "error"
  /\ Len(trip[1].res[1].found["restaurants"]) = 1
  /\ Len(trip[1].res[1].found["hotels"]) = 1
  /\ trip[1].res[1].found["attractions"] = << >>
  /\ trip[1].res[1].found["flights"] = << >>

====
